---- MODULE Spec2Model ----
(***************************************************************************)
(* A model of the Wordle solver core of dewitt/wordle: the word codec      *)
(* (words_data.h / words_data.cpp), the feedback codec and the guess       *)
(* selector (solver_core.cpp) and the feedback-table cache                 *)
(* (feedback_cache.cpp).                                                   *)
(*                                                                         *)
(* A valid packed word is an integer below 2^25 whose five 5-bit fields    *)
(* are letter codes 1..26.  A character is its ASCII code.  A full         *)
(* encoded_word (uint64_t) is kept as three limbs [hi, mid, lo] of 4, 30   *)
(* and 30 bits wherever the code can produce a value above 2^25.           *)
(***************************************************************************)
EXTENDS Integers, Sequences, FiniteSets, TLC

\* ------------------------------------------------------------------------
\* Bounds of the model.
\* ------------------------------------------------------------------------
\* Letter codes 1..NumLetters are used for the words of the feedback check.
NumLetters == 3
\* The strings handed to encode_word have at most MaxWordLen characters.
MaxWordLen == 6
\* A vocabulary has at most MaxVocab words.
MaxVocab == 3
\* std::thread::hardware_concurrency() reports at most MaxThreads.
MaxThreads == 3
\* A vocabulary of the lookup generator has at most MaxTreeVocab words.
MaxTreeVocab == 4
\* --lookup-depth is at most MaxDepth.
MaxDepth == 3
\* One PrecomputedLookup is loaded at most MaxLoads times.
MaxLoads == 2
\* A process holds at most MaxTables FeedbackTable objects at a time.
MaxTables == 3

\* Program constants.
AllCorrect == 242

VARIABLES
  \* calculate_feedback_encoded: arguments, result, position
  guess_encoded, answer_encoded, final_feedback, fb_pc,
  \* encode_word / decode_word / load_words_from_file
  word, encoded, decoded, loaded_words, codec_pc,
  \* the vocabulary (load_words) shared by the cache and the selector
  words,
  \* feedback_table.bin, build_feedback_table_file, load_feedback_table,
  \* filter_candidate_indices
  file, tbl_pc, written, stream_ok, build_ret, table, filt,
  \* find_best_guess_encoded: arguments, chunks, futures, reduction, result
  possible_indices, hard_mode, previous_guess, previous_feedback,
  num_threads, word_chunks, futures, results, next_future,
  best_guess, min_overall_score, best_pc,
  \* is_valid_hard_mode_guess: the candidate guess, the result, position
  hard_potential_guess, valid, hard_pc,
  \* the lookup file at the output path of the generator, which the solver loads
  lookup_file,
  \* generate_lookup_table: arguments, the tree in memory, the content of the
  \* path at the call, the output stream, result, position
  gen_start, gen_depth, gen_tree, gen_prev, gen_out, gen_ret, gen_pc,
  \* main's PrecomputedLookup lookup_table and the result of its loads
  lookup_table, load_ret, loads,
  \* run_non_interactive: answer, turn, guess, node, trace, the entry matched
  \* last, whether a read left the buffer, outcome, position
  run_answer, run_turn, run_guess, run_node, steps, run_matched, oob_read,
  run_result, run_pc,
  \* the FeedbackTable objects of a process: their fields, which of them are
  \* alive, which were moved from, and the mappings not yet unmapped
  tbl_objects, tbl_alive, tbl_moved, live_mappings,
  \* solver.cpp's solve mode: --hard-mode, --disable-lookup, the number of
  \* hardware threads, where the lookup file came from, main's lookup_ptr,
  \* the answer, the locals of run_non_interactive with its trace, position
  solve_hard_mode, disable_lookup, hw_threads, lookup_origin, lookup_ptr,
  encoded_answer, locals, solve_pc

fbVars == <<guess_encoded, answer_encoded, final_feedback, fb_pc>>
codecVars == <<word, encoded, decoded, loaded_words, codec_pc>>
tableVars == <<file, tbl_pc, written, stream_ok, build_ret, table, filt>>
bestVars ==
  <<possible_indices, hard_mode, previous_guess, previous_feedback,
    num_threads, word_chunks, futures, results, next_future,
    best_guess, min_overall_score, best_pc>>
hardVars == <<hard_potential_guess, valid, hard_pc>>
genVars == <<gen_start, gen_depth, gen_tree, gen_prev, gen_out, gen_ret, gen_pc>>
runVars ==
  <<lookup_table, load_ret, loads, run_answer, run_turn, run_guess, run_node, steps,
    run_matched, oob_read, run_result, run_pc>>
treeVars == <<lookup_file, genVars, runVars>>
\* the variables of the specifications that follow the guess selector
moveVars == <<tbl_objects, tbl_alive, tbl_moved, live_mappings>>
solveVars ==
  <<solve_hard_mode, disable_lookup, hw_threads, lookup_origin, lookup_ptr,
    encoded_answer, locals, solve_pc>>
extVars == <<hardVars, treeVars, moveVars, solveVars>>
vars == <<fbVars, codecVars, words, tableVars, bestVars, extVars>>

\* ------------------------------------------------------------------------
\* words_data.h
\* ------------------------------------------------------------------------
\* get_char_code_at: (word >> (5 * (4 - pos))) & 0x1F
get_char_code_at(w, pos) == (w \div (32 ^ (4 - pos))) % 32

\* The packed word of five letter codes, most significant field first.
PackCodes(s) == s[1] * (32 ^ 4) + s[2] * (32 ^ 3) + s[3] * (32 ^ 2) + s[4] * 32 + s[5]

\* ------------------------------------------------------------------------
\* solver_core.cpp: calculate_feedback_encoded
\* ------------------------------------------------------------------------
RECURSIVE CountAnswerLoop(_, _, _)
\* first loop: answer_counts[answer_codes[i]]++
CountAnswerLoop(answer, i, counts) ==
  IF i >= 5 THEN counts
  ELSE CountAnswerLoop(answer, i + 1,
         [counts EXCEPT ![get_char_code_at(answer, i)] = @ + 1])

RECURSIVE GreenPass_NoDecrement(_, _, _, _)
\* the pass that marks greens but forgets to consume the answer's letter
GreenPass_NoDecrement(guess, answer, i, st) ==
  IF i >= 5 THEN st
  ELSE IF get_char_code_at(guess, i) = get_char_code_at(answer, i)
       THEN GreenPass_NoDecrement(guess, answer, i + 1,
              [st EXCEPT !.feedback_codes[i] = 2])
       ELSE GreenPass_NoDecrement(guess, answer, i + 1, st)

RECURSIVE GreenPassLoop(_, _, _, _)
\* second loop: equal letters are marked 2 and the answer's count is consumed
GreenPassLoop(guess, answer, i, st) ==
  IF i >= 5 THEN st
  ELSE IF get_char_code_at(guess, i) = get_char_code_at(answer, i)
       THEN GreenPassLoop(guess, answer, i + 1,
              [st EXCEPT !.feedback_codes[i] = 2,
                         !.answer_counts[get_char_code_at(guess, i)] = @ - 1])
       ELSE GreenPassLoop(guess, answer, i + 1, st)

GreenPass(guess, answer, i, st) == GreenPassLoop(guess, answer, i, st)

RECURSIVE YellowPass_MarksCorrect(_, _, _)
\* the pass that writes 2 where the code writes 1
YellowPass_MarksCorrect(guess, i, st) ==
  IF i >= 5 THEN st
  ELSE IF st.feedback_codes[i] = 0 /\ st.answer_counts[get_char_code_at(guess, i)] > 0
       THEN YellowPass_MarksCorrect(guess, i + 1,
              [st EXCEPT !.feedback_codes[i] = 2,
                         !.answer_counts[get_char_code_at(guess, i)] = @ - 1])
       ELSE YellowPass_MarksCorrect(guess, i + 1, st)

RECURSIVE YellowPassLoop(_, _, _)
\* third loop: an unmarked letter the answer still holds is marked 1, consuming it
YellowPassLoop(guess, i, st) ==
  IF i >= 5 THEN st
  ELSE IF st.feedback_codes[i] = 0 /\ st.answer_counts[get_char_code_at(guess, i)] > 0
       THEN YellowPassLoop(guess, i + 1,
              [st EXCEPT !.feedback_codes[i] = 1,
                         !.answer_counts[get_char_code_at(guess, i)] = @ - 1])
       ELSE YellowPassLoop(guess, i + 1, st)

YellowPass(guess, i, st) == YellowPassLoop(guess, i, st)

RECURSIVE Base3Loop(_, _, _)
\* last loop: final_feedback = final_feedback * 3 + feedback_codes[i]
Base3Loop(codes, i, acc) ==
  IF i >= 5 THEN acc ELSE Base3Loop(codes, i + 1, acc * 3 + codes[i])

calculate_feedback_encoded(guess, answer) ==
  LET counts0 == CountAnswerLoop(answer, 0, [c \in 0..26 |-> 0])
      st0 == [feedback_codes |-> [i \in 0..4 |-> 0], answer_counts |-> counts0]
      st1 == GreenPass(guess, answer, 0, st0)
      st2 == YellowPass(guess, 0, st1)
  IN Base3Loop(st2.feedback_codes, 0, 0)

\* ------------------------------------------------------------------------
\* uint64_t arithmetic on limbs, as encode_word and decode_word need it
\* ------------------------------------------------------------------------
Limb == 2 ^ 30
LimbTop == 2 ^ 25

U64Zero == [hi |-> 0, mid |-> 0, lo |-> 0]

\* conversion of an int in -2^30 .. 2^30-1 to uint64_t (sign extension)
U64FromInt(v) ==
  IF v >= 0 THEN [hi |-> 0, mid |-> 0, lo |-> v]
  ELSE [hi |-> 15, mid |-> Limb - 1, lo |-> Limb + v]

\* x <<= 5 on 64 bits
U64Shl5(x) ==
  [lo |-> (x.lo % LimbTop) * 32,
   mid |-> (x.mid % LimbTop) * 32 + (x.lo \div LimbTop),
   hi |-> (x.hi * 32 + (x.mid \div LimbTop)) % 16]

\* x >>= 5 on 64 bits
U64Shr5(x) ==
  [lo |-> (x.lo \div 32) + (x.mid % 32) * LimbTop,
   mid |-> (x.mid \div 32) + (x.hi % 32) * LimbTop,
   hi |-> 0]

RECURSIVE BitOr(_, _)
BitOr(a, b) ==
  IF a = 0 THEN b
  ELSE IF b = 0 THEN a
  ELSE (IF a % 2 = 1 \/ b % 2 = 1 THEN 1 ELSE 0) + 2 * BitOr(a \div 2, b \div 2)

U64Or(x, y) ==
  [lo |-> BitOr(x.lo, y.lo), mid |-> BitOr(x.mid, y.mid), hi |-> BitOr(x.hi, y.hi)]

\* ------------------------------------------------------------------------
\* words_data.h: encode_word;  words_data.cpp: decode_word
\* ------------------------------------------------------------------------
CharA == 97

RECURSIVE EncodeLoop(_, _, _)
\* for (const char c : word) { encoded <<= 5; encoded |= (c - 'a' + 1); }
EncodeLoop(w, k, acc) ==
  IF k > Len(w) THEN acc
  ELSE EncodeLoop(w, k + 1, U64Or(U64Shl5(acc), U64FromInt(w[k] - CharA + 1)))

encode_word(w) == EncodeLoop(w, 1, U64Zero)

RECURSIVE DecodeLoop(_, _, _)
\* for i = 4 .. 0: word[i] = (encoded & 0x1F) + 'a' - 1; encoded >>= 5
DecodeLoop(enc, i, out) ==
  IF i < 1 THEN out
  ELSE DecodeLoop(U64Shr5(enc), i - 1, [out EXCEPT ![i] = (enc.lo % 32) + CharA - 1])

\* a decoder that forgets that code 1 is 'a'
decode_word_OffByOne(enc) ==
  [k \in 1..5 |-> DecodeLoop(enc, 5, <<32, 32, 32, 32, 32>>)[k] + 1]

decode_word(enc) == DecodeLoop(enc, 5, <<32, 32, 32, 32, 32>>)

\* std::tolower in the C locale
tolower(c) == IF c >= 65 /\ c <= 90 THEN c + 32 ELSE c

\* words_data.cpp, load_words_from_file: what one line adds to the word list
load_line(line) ==
  IF Len(line) # 5 THEN <<>>
  ELSE <<encode_word([k \in 1..Len(line) |-> tolower(line[k])])>>

\* ------------------------------------------------------------------------
\* Inputs
\* ------------------------------------------------------------------------
Letters == 1..NumLetters
ValidWords == {PackCodes(s) : s \in [1..5 -> Letters]}

\* 'A', '`' (the character before 'a'), 'a', 'b', 'z'
CodecChars == {65, 96, 97, 98, 122}
CodecInputs == UNION {[1..n -> CodecChars] : n \in 0..MaxWordLen}

IsLowercaseWord(w) == Len(w) = 5 /\ \A k \in 1..Len(w) : w[k] >= 97 /\ w[k] <= 122

\* ------------------------------------------------------------------------
\* Specification of the feedback codec: every pair of valid words is scored.
\* ------------------------------------------------------------------------
\* a path with no file, and a file with its bytes
NoFile == [exists |-> FALSE, bytes |-> <<>>]
FileOf(b) == [exists |-> TRUE, bytes |-> b]

\* a null pointer, and a pointer to the bytes of a mapping
NullPtr == [null |-> TRUE, bytes |-> <<>>]
Mapping(b) == [null |-> FALSE, bytes |-> b]

\* const FeedbackTable *: <<>> is nullptr, <<t>> points to t
NoTable == <<>>

\* FeedbackTable::FeedbackTable() = default
EmptyTable ==
  [guess_count |-> 0, answer_count |-> 0, owned_data |-> <<>>,
   mapped_data |-> NullPtr, mapping_length |-> 0]

FbIdle ==
  /\ guess_encoded = 0 /\ answer_encoded = 0 /\ final_feedback = 0 /\ fb_pc = "idle"
CodecIdle ==
  /\ word = <<>> /\ encoded = U64Zero /\ decoded = <<>> /\ loaded_words = <<>>
  /\ codec_pc = "idle"

TableIdle ==
  /\ file = NoFile /\ tbl_pc = "idle" /\ written = 0 /\ stream_ok = TRUE
  /\ build_ret = "none" /\ table = EmptyTable /\ filt = <<>>

BestIdle ==
  /\ possible_indices = <<>> /\ hard_mode = FALSE /\ previous_guess = 0
  /\ previous_feedback = 0 /\ num_threads = 0 /\ word_chunks = <<>>
  /\ futures = <<>> /\ results = <<>> /\ next_future = 0
  /\ best_guess = 0 /\ min_overall_score = 0 /\ best_pc = "idle"

HardIdle == hard_potential_guess = 0 /\ valid = "none" /\ hard_pc = "idle"

\* generate_lookup_table before the tree is built
NoTree == [offset |-> 0, buffer |-> <<>>, entries |-> <<>>]
\* const uint8_t *: nullptr, or buffer_.data() + off
NullNode == [null |-> TRUE, off |-> 0]
\* a uint64_t read from a file, as its two 32-bit halves
Zero64 == [lo |-> 0, hi |-> 0]
\* a default-constructed PrecomputedLookup
FreshLookup ==
  [buffer_ |-> <<>>, root_ptr_ |-> NullNode, depth_ |-> 0, start_word_ |-> Zero64]

GenIdle ==
  /\ gen_start = 0 /\ gen_depth = 0 /\ gen_tree = NoTree /\ gen_prev = NoFile
  /\ gen_out = "closed" /\ gen_ret = "none" /\ gen_pc = "idle"

RunIdle ==
  /\ lookup_table = FreshLookup /\ load_ret = "none" /\ loads = 0
  /\ run_answer = 0 /\ run_turn = 0 /\ run_guess = Zero64 /\ run_node = NullNode
  /\ steps = <<>> /\ run_matched = -1 /\ oob_read = FALSE
  /\ run_result = "none" /\ run_pc = "idle"

TreeIdle == lookup_file = NoFile /\ GenIdle /\ RunIdle

MoveIdle ==
  /\ tbl_objects = <<>> /\ tbl_alive = {} /\ tbl_moved = {} /\ live_mappings = 0

\* the locals of run_non_interactive before it is entered
NoLocals ==
  [possible_indices |-> <<>>, turn |-> 0, guess |-> 0, feedback_val |-> 0,
   lookup_node |-> NullNode, lookup_level |-> 0, used_lookup |-> FALSE,
   steps |-> <<>>, exit |-> "none"]

SolveIdle ==
  /\ solve_hard_mode = FALSE /\ disable_lookup = FALSE /\ hw_threads = 0
  /\ lookup_origin = "none" /\ lookup_ptr = <<>> /\ encoded_answer = 0
  /\ locals = NoLocals /\ solve_pc = "idle"

ExtIdle == HardIdle /\ TreeIdle /\ MoveIdle /\ SolveIdle

InitFeedback ==
  /\ guess_encoded \in ValidWords
  /\ answer_encoded \in ValidWords
  /\ final_feedback = 0
  /\ fb_pc = "call"
  /\ CodecIdle
  /\ words = <<>>
  /\ TableIdle
  /\ BestIdle
  /\ ExtIdle

CalculateFeedback ==
  /\ fb_pc = "call"
  /\ final_feedback' = calculate_feedback_encoded(guess_encoded, answer_encoded)
  /\ fb_pc' = "return"
  /\ UNCHANGED <<guess_encoded, answer_encoded, codecVars, words, tableVars, bestVars, extVars>>

NextFeedback == CalculateFeedback

SpecFeedback == InitFeedback /\ [][NextFeedback]_vars

\* ------------------------------------------------------------------------
\* Specification of the word codec: strings are encoded, decoded and loaded.
\* ------------------------------------------------------------------------
InitCodec ==
  /\ word \in CodecInputs
  /\ encoded = U64Zero
  /\ decoded = <<>>
  /\ loaded_words = <<>>
  /\ codec_pc = "input"
  /\ FbIdle
  /\ words = <<>>
  /\ TableIdle
  /\ BestIdle
  /\ ExtIdle

EncodeWord ==
  /\ codec_pc = "input"
  /\ encoded' = encode_word(word)
  /\ codec_pc' = "encoded"
  /\ UNCHANGED <<word, decoded, loaded_words, fbVars, words, tableVars, bestVars, extVars>>

DecodeWord ==
  /\ codec_pc = "encoded"
  /\ decoded' = decode_word(encoded)
  /\ codec_pc' = "decoded"
  /\ UNCHANGED <<word, encoded, loaded_words, fbVars, words, tableVars, bestVars, extVars>>

LoadLine ==
  /\ codec_pc = "input"
  /\ loaded_words' = load_line(word)
  /\ codec_pc' = "loaded"
  /\ UNCHANGED <<word, encoded, decoded, fbVars, words, tableVars, bestVars, extVars>>

NextCodec == EncodeWord \/ DecodeWord \/ LoadLine

SpecCodec == InitCodec /\ [][NextCodec]_vars

\* ------------------------------------------------------------------------
\* solver_core.cpp: build_lookup_tables (LookupTables::word_index)
\* ------------------------------------------------------------------------
Range(sq) == {sq[k] : k \in 1..Len(sq)}

\* emplace keeps the first index of a word; indices are 0-based
build_lookup_tables(ws) ==
  [w \in Range(ws) |-> (CHOOSE k \in 1..Len(ws) :
                          ws[k] = w /\ \A j \in 1..(k - 1) : ws[j] # w) - 1]

\* ------------------------------------------------------------------------
\* feedback_cache.h / feedback_cache.cpp
\* ------------------------------------------------------------------------
\* FeedbackTable::loaded
loaded(t) == ~t.mapped_data.null \/ t.owned_data # <<>>

\* FeedbackTable::data
data(t) == IF ~t.mapped_data.null THEN t.mapped_data.bytes ELSE t.owned_data

\* FeedbackTable::row: the bytes from data() + guess_idx * answer_count on
row(t, guess_idx) ==
  [a \in 0..(Len(data(t)) - guess_idx * t.answer_count - 1) |->
     data(t)[guess_idx * t.answer_count + a + 1]]

\* load_feedback_table: f is the file at path, mmap_ok says that the build has
\* the mmap branch and that open, fstat and mmap succeed
load_feedback_table(f, word_count, mmap_ok) ==
  LET expected_size == word_count * word_count
  IN IF f.exists /\ mmap_ok /\ Len(f.bytes) = expected_size /\ Len(f.bytes) > 0
     THEN [EmptyTable EXCEPT !.mapped_data = Mapping(f.bytes),
                             !.mapping_length = Len(f.bytes),
                             !.guess_count = word_count, !.answer_count = word_count]
     ELSE IF ~f.exists
     THEN EmptyTable                              \* !file.is_open()
     ELSE IF Len(f.bytes) < expected_size
     THEN EmptyTable                              \* read fails, owned_data.clear()
     ELSE [EmptyTable EXCEPT !.owned_data = SubSeq(f.bytes, 1, expected_size),
                             !.guess_count = word_count, !.answer_count = word_count]

\* a writer that walks the table answer-major
CellFeedback_Transposed(ws, k) ==
  calculate_feedback_encoded(ws[(k % Len(ws)) + 1], ws[(k \div Len(ws)) + 1]) % 256

\* build_feedback_table_file: the byte of the k-th put (k counts from 0), the
\* outer loop over guesses and the inner loop over answers
CellFeedback(ws, k) ==
  calculate_feedback_encoded(ws[(k \div Len(ws)) + 1], ws[(k % Len(ws)) + 1]) % 256

\* the file a build that succeeds leaves
BuiltFile(ws) == [k \in 1..(Len(ws) * Len(ws)) |-> CellFeedback(ws, k - 1)]

\* ------------------------------------------------------------------------
\* solver_core.cpp: filter_candidate_indices
\* ------------------------------------------------------------------------
RECURSIVE FilterRowLoop(_, _, _, _)
\* for idx in indices: if row[idx] == feedback, push_back
FilterRowLoop(indices, k, rw, feedback) ==
  IF k > Len(indices) THEN <<>>
  ELSE (IF rw[indices[k]] = feedback THEN <<indices[k]>> ELSE <<>>)
       \o FilterRowLoop(indices, k + 1, rw, feedback)

RECURSIVE FilterDirectLoop(_, _, _, _, _)
\* for idx in indices: if calculate_feedback_encoded(guess, words[idx]) == feedback
FilterDirectLoop(indices, k, guess, feedback, ws) ==
  IF k > Len(indices) THEN <<>>
  ELSE (IF calculate_feedback_encoded(guess, ws[indices[k] + 1]) = feedback
        THEN <<indices[k]>> ELSE <<>>)
       \o FilterDirectLoop(indices, k + 1, guess, feedback, ws)

filter_candidate_indices(indices, guess, feedback, feedback_table, lookups, ws) ==
  IF feedback_table # NoTable /\ loaded(feedback_table[1])
  THEN IF guess \notin DOMAIN lookups
       THEN <<>>
       ELSE FilterRowLoop(indices, 1, row(feedback_table[1], lookups[guess]), feedback)
  ELSE FilterDirectLoop(indices, 1, guess, feedback, ws)

\* ------------------------------------------------------------------------
\* Inputs of the cache and the selector
\* ------------------------------------------------------------------------
\* aabbc, abcab, bbbda, dedde: words with repeated letters and different
\* sets of letters, one of which cannot tell two others apart, so that scores
\* and weights both differ and tie
Pool ==
  {PackCodes(<<1, 1, 2, 2, 3>>), PackCodes(<<1, 2, 3, 1, 2>>),
   PackCodes(<<2, 2, 2, 4, 1>>), PackCodes(<<4, 5, 4, 4, 5>>)}

\* lists of distinct words
Vocabularies ==
  UNION {{v \in [1..n -> Pool] : \A i \in 1..n, j \in 1..n : i # j => v[i] # v[j]} :
           n \in 1..MaxVocab}

RECURSIVE AscendingSeq(_)
\* the indices of a set in ascending order
AscendingSeq(S) ==
  IF S = {} THEN <<>>
  ELSE LET m == CHOOSE x \in S : \A y \in S : x <= y
       IN <<m>> \o AscendingSeq(S \ {m})

IndexLists(n) == {AscendingSeq(S) : S \in SUBSET (0..(n - 1))}

\* a file left by an earlier run or an earlier vocabulary
StaleFiles == {FileOf([k \in 1..n |-> 0]) : n \in 0..(MaxVocab * MaxVocab + 1)}

\* ------------------------------------------------------------------------
\* Specification of the feedback-table cache: main's optional rebuild, the
\* load, and candidate filtering with and without the table.
\* ------------------------------------------------------------------------
InitTable ==
  /\ words \in Vocabularies
  /\ file \in {NoFile} \cup StaleFiles
  /\ tbl_pc = "start"
  /\ written = 0
  /\ stream_ok = TRUE
  /\ build_ret = "none"
  /\ table = EmptyTable
  /\ filt = <<>>
  /\ FbIdle
  /\ CodecIdle
  /\ BestIdle
  /\ ExtIdle

\* std::ofstream file(path, binary | trunc): the file is created or emptied
BuildOpen ==
  /\ tbl_pc = "start"
  /\ file' = FileOf(<<>>)
  /\ tbl_pc' = "writing"
  /\ written' = 0
  /\ stream_ok' = TRUE
  /\ UNCHANGED <<build_ret, table, filt, words, fbVars, codecVars, bestVars, extVars>>

\* !file.is_open(): return false
BuildOpenFails ==
  /\ tbl_pc = "start"
  /\ build_ret' = "false"
  /\ tbl_pc' = "exit"
  /\ UNCHANGED <<file, written, stream_ok, table, filt, words, fbVars, codecVars, bestVars, extVars>>

\* file.put(feedback); ++written  -- the byte reaches the file
BuildPut ==
  /\ tbl_pc = "writing"
  /\ written < Len(words) * Len(words)
  /\ stream_ok
  /\ file' = FileOf(Append(file.bytes, CellFeedback(words, written)))
  /\ written' = written + 1
  /\ UNCHANGED <<tbl_pc, stream_ok, build_ret, table, filt, words, fbVars, codecVars, bestVars, extVars>>

\* file.put(feedback); ++written  -- the write fails, or the stream is already bad
BuildPutFails ==
  /\ tbl_pc = "writing"
  /\ written < Len(words) * Len(words)
  /\ stream_ok' = FALSE
  /\ written' = written + 1
  /\ UNCHANGED <<file, tbl_pc, build_ret, table, filt, words, fbVars, codecVars, bestVars, extVars>>

\* file.flush(); if (!file) return false; return true
BuildFinish ==
  /\ tbl_pc = "writing"
  /\ written = Len(words) * Len(words)
  /\ build_ret' = IF stream_ok THEN "true" ELSE "false"
  /\ tbl_pc' = IF stream_ok THEN "load" ELSE "exit"
  /\ UNCHANGED <<file, written, stream_ok, table, filt, words, fbVars, codecVars, bestVars, extVars>>

\* main without --feedback-table
SkipBuild ==
  /\ tbl_pc = "start"
  /\ tbl_pc' = "load"
  /\ UNCHANGED <<file, written, stream_ok, build_ret, table, filt, words, fbVars, codecVars, bestVars, extVars>>

\* FeedbackTable feedback_table = load_feedback_table(kFeedbackTablePath, words.size())
LoadTable ==
  /\ tbl_pc = "load"
  /\ \E mmap_ok \in BOOLEAN :
       table' = load_feedback_table(file, Len(words), mmap_ok)
  /\ tbl_pc' = "ready"
  /\ UNCHANGED <<file, written, stream_ok, build_ret, filt, words, fbVars, codecVars, bestVars, extVars>>

\* the outcome codes worth asking for: those the guess yields, 0 and 242
FilterFeedbacks(guess) ==
  {calculate_feedback_encoded(guess, words[k]) : k \in 1..Len(words)} \cup {0, AllCorrect}

\* one call of filter_candidate_indices with the table main passes
\* (feedback_ptr = loaded ? &table : nullptr) and one with no table
FilterCandidates ==
  /\ tbl_pc = "ready"
  /\ filt = <<>>
  /\ \E guess \in Pool, indices \in IndexLists(Len(words)) :
       \E feedback \in FilterFeedbacks(guess) :
         filt' = <<[guess |-> guess, indices |-> indices, feedback |-> feedback,
                  with_table |->
                    filter_candidate_indices(indices, guess, feedback,
                      IF loaded(table) THEN <<table>> ELSE NoTable,
                      build_lookup_tables(words), words),
                  direct |->
                    filter_candidate_indices(indices, guess, feedback, NoTable,
                      build_lookup_tables(words), words)]>>
  /\ UNCHANGED <<file, tbl_pc, written, stream_ok, build_ret, table, words, fbVars, codecVars, bestVars, extVars>>

NextTable ==
  \/ BuildOpen \/ BuildOpenFails \/ BuildPut \/ BuildPutFails \/ BuildFinish
  \/ SkipBuild \/ LoadTable \/ FilterCandidates

SpecTable == InitTable /\ [][NextTable]_vars

\* ------------------------------------------------------------------------
\* words_data.cpp: compute_word_weights
\* ------------------------------------------------------------------------
\* letter_counts[code]: the occurrences of the letter in all words
letter_counts(ws) ==
  [c \in 0..26 |->
     Cardinality({<<k, i>> \in (1..Len(ws)) \X (0..4) : get_char_code_at(ws[k], i) = c})]

\* per word, the sum of letter_counts over its distinct letters
compute_word_weights(ws) ==
  LET lc == letter_counts(ws)
      RECURSIVE SumOver(_)
      SumOver(S) == IF S = {} THEN 0
                    ELSE LET c == CHOOSE x \in S : TRUE IN lc[c] + SumOver(S \ {c})
  IN [k \in 1..Len(ws) |-> SumOver({get_char_code_at(ws[k], i) : i \in 0..4})]

\* ------------------------------------------------------------------------
\* solver_core.cpp: is_valid_hard_mode_guess
\* ------------------------------------------------------------------------
RECURSIVE FeedbackCodesLoop_Reversed(_, _, _)
\* the digits of the outcome stored from the first position on
FeedbackCodesLoop_Reversed(i, temp_feedback, feedback_codes) ==
  IF i < 0 THEN feedback_codes
  ELSE FeedbackCodesLoop_Reversed(i - 1, temp_feedback \div 3,
                                  [feedback_codes EXCEPT ![4 - i] = temp_feedback % 3])

RECURSIVE FeedbackCodesLoop(_, _, _)
\* for (int i = 4; i >= 0; --i)
\*   { feedback_codes[i] = temp_feedback % 3; temp_feedback /= 3; }
FeedbackCodesLoop(i, temp_feedback, feedback_codes) ==
  IF i < 0 THEN feedback_codes
  ELSE FeedbackCodesLoop(i - 1, temp_feedback \div 3,
                         [feedback_codes EXCEPT ![i] = temp_feedback % 3])

RECURSIVE RequiredYellowsLoop(_, _, _, _, _)
\* the loop over the positions: return false at a correct position whose
\* letter differs, count the letters of the present positions
RequiredYellowsLoop(potential_guess, prev_guess, feedback_codes, i, required_yellows) ==
  IF i > 4 THEN [returned |-> FALSE, required_yellows |-> required_yellows]
  ELSE LET prev_code == get_char_code_at(prev_guess, i)
           potential_code == get_char_code_at(potential_guess, i)
       IN IF feedback_codes[i] = 2 /\ potential_code # prev_code
          THEN [returned |-> TRUE, required_yellows |-> required_yellows]
          ELSE RequiredYellowsLoop(potential_guess, prev_guess, feedback_codes, i + 1,
                 IF feedback_codes[i] = 1
                 THEN [required_yellows EXCEPT ![prev_code] = @ + 1]
                 ELSE required_yellows)

RECURSIVE PotentialCountsLoop(_, _, _)
\* potential_guess_counts[potential_guess_codes[i]]++
PotentialCountsLoop(potential_guess, i, counts) ==
  IF i > 4 THEN counts
  ELSE PotentialCountsLoop(potential_guess, i + 1,
         [counts EXCEPT ![get_char_code_at(potential_guess, i)] = @ + 1])

RECURSIVE EnoughYellowsLoop_Presence(_, _, _)
\* the last loop asking only for the presence of a required letter
EnoughYellowsLoop_Presence(potential_guess_counts, required_yellows, i) ==
  IF i > 26 THEN TRUE
  ELSE IF potential_guess_counts[i] = 0 /\ required_yellows[i] > 0 THEN FALSE
  ELSE EnoughYellowsLoop_Presence(potential_guess_counts, required_yellows, i + 1)

RECURSIVE EnoughYellowsLoop(_, _, _)
\* for (int i = 1; i <= 26; ++i)
\*   if (potential_guess_counts[i] < required_yellows[i]) return false;
EnoughYellowsLoop(potential_guess_counts, required_yellows, i) ==
  IF i > 26 THEN TRUE
  ELSE IF potential_guess_counts[i] < required_yellows[i] THEN FALSE
  ELSE EnoughYellowsLoop(potential_guess_counts, required_yellows, i + 1)

is_valid_hard_mode_guess(potential_guess, prev_guess, prev_feedback) ==
  LET feedback_codes == FeedbackCodesLoop(4, prev_feedback, [i \in 0..4 |-> 0])
      r == RequiredYellowsLoop(potential_guess, prev_guess, feedback_codes, 0,
                               [c \in 0..26 |-> 0])
  IN IF r.returned THEN FALSE
     ELSE EnoughYellowsLoop(PotentialCountsLoop(potential_guess, 0, [c \in 0..26 |-> 0]),
                            r.required_yellows, 1)

\* ------------------------------------------------------------------------
\* solver_core.cpp: find_best_guess_worker
\* ------------------------------------------------------------------------
\* std::numeric_limits<double>::max(): above every score the model can reach
DBL_MAX == 2 ^ 30

RECURSIVE ScoreLoop_Linear(_, _, _, _, _, _)
\* a score that adds countSoFar + 1 for every candidate
ScoreLoop_Linear(fbs, k, groups, current_score, local_min_score, early_abandon) ==
  IF k > Len(fbs) THEN [score |-> current_score, pruned |-> FALSE]
  ELSE LET count_before == groups[fbs[k]]
           score == current_score + (count_before + 1)
       IN IF early_abandon /\ score >= local_min_score
          THEN [score |-> score, pruned |-> TRUE]
          ELSE ScoreLoop_Linear(fbs, k + 1, [groups EXCEPT ![fbs[k]] = count_before + 1],
                                score, local_min_score, early_abandon)

RECURSIVE ScoreLoop(_, _, _, _, _, _)
\* the loop over possible_indices for one guess: fbs[k] is the outcome of the
\* guess against the k-th candidate, groups the touched part of feedback_groups;
\* early_abandon is TRUE in the code (if (current_score >= local_min_score)
\* { pruned = true; break; }) and FALSE only in the unpruned reference
ScoreLoop(fbs, k, groups, current_score, local_min_score, early_abandon) ==
  IF k > Len(fbs) THEN [score |-> current_score, pruned |-> FALSE]
  ELSE LET count_before == groups[fbs[k]]
           score == current_score + (2 * count_before + 1)
       IN IF early_abandon /\ score >= local_min_score
          THEN [score |-> score, pruned |-> TRUE]
          ELSE ScoreLoop(fbs, k + 1, [groups EXCEPT ![fbs[k]] = count_before + 1],
                         score, local_min_score, early_abandon)

\* the outcomes of one guess against the candidates, read from the table row
\* or computed
GuessFeedbacks(indices, guess, use_table, feedback_table, lookups, ws) ==
  [k \in 1..Len(indices) |->
     IF use_table
     THEN row(feedback_table[1], lookups[guess])[indices[k]]
     ELSE calculate_feedback_encoded(guess, ws[indices[k] + 1])]

\* current_score < local_min_score ||
\* (current_score == local_min_score && guess_weight > local_best_weight)
BetterGuess(current_score, guess_weight, st) ==
  \/ current_score < st.local_min_score
  \/ (current_score = st.local_min_score /\ guess_weight > st.local_best_weight)

RECURSIVE WorkerLoop(_, _, _, _, _, _, _, _, _)
\* for (const auto &guess : guess_subset)
WorkerLoop(indices, guess_subset, k, st, feedback_table, lookups, ws, weights, early_abandon) ==
  IF k > Len(guess_subset) THEN st
  ELSE
    LET guess == guess_subset[k]
        use_table == feedback_table # NoTable /\ loaded(feedback_table[1])
    IN IF use_table /\ guess \notin DOMAIN lookups
       THEN WorkerLoop(indices, guess_subset, k + 1, st, feedback_table, lookups, ws,
                       weights, early_abandon)
       ELSE
         LET fbs == GuessFeedbacks(indices, guess, use_table, feedback_table, lookups, ws)
             r == ScoreLoop(fbs, 1, [f \in Range(fbs) |-> 0], 0, st.local_min_score,
                            early_abandon)
             guess_weight == IF guess \in DOMAIN lookups
                             THEN weights[lookups[guess] + 1] ELSE 0
             st2 == IF ~r.pruned /\ BetterGuess(r.score, guess_weight, st)
                    THEN [local_best_guess |-> guess, local_min_score |-> r.score,
                          local_best_weight |-> guess_weight]
                    ELSE st
         IN WorkerLoop(indices, guess_subset, k + 1, st2, feedback_table, lookups, ws,
                       weights, early_abandon)

\* returns {local_best_guess, local_min_score}
find_best_guess_worker(indices, guess_subset, feedback_table, lookups, ws, weights) ==
  LET st == WorkerLoop(indices, guess_subset, 1,
                       [local_best_guess |-> 0, local_min_score |-> DBL_MAX,
                        local_best_weight |-> 0],
                       feedback_table, lookups, ws, weights, TRUE)
  IN [first |-> st.local_best_guess, second |-> st.local_min_score]

\* ------------------------------------------------------------------------
\* solver_core.cpp: find_best_guess_encoded
\* ------------------------------------------------------------------------
\* guesses_to_check: the vocabulary, or in hard mode with a previous guess the
\* words is_valid_hard_mode_guess accepts
guesses_to_check(ws, hm, prev_guess, prev_feedback) ==
  IF hm /\ prev_guess # 0
  THEN SelectSeq(ws, LAMBDA g : is_valid_hard_mode_guess(g, prev_guess, prev_feedback))
  ELSE ws

RECURSIVE ChunkOf(_, _, _, _)
\* word_chunks[i % num_threads].push_back(guesses[i]) for chunk c (i from 0)
ChunkOf(guesses, i, n, c) ==
  IF i >= Len(guesses) THEN <<>>
  ELSE (IF i % n = c THEN <<guesses[i + 1]>> ELSE <<>>) \o ChunkOf(guesses, i + 1, n, c)

\* chunks that each hold every guess
make_word_chunks_Overlap(guesses, n) == [c \in 1..n |-> guesses]

\* word_chunks as a sequence: element c + 1 is chunk c
make_word_chunks(guesses, n) == [c \in 1..n |-> ChunkOf(guesses, 0, n, c - 1)]

\* the chunks a future is made for, in the order of the futures vector
make_futures(chunks) ==
  SelectSeq([c \in 1..Len(chunks) |-> c], LAMBDA c : chunks[c] # <<>>)

\* the reduction with its comparison reversed
reduce_step_Greater(acc, result) ==
  IF result.second > acc.min_overall_score
  THEN [best_guess |-> result.first, min_overall_score |-> result.second]
  ELSE acc

\* one turn of the reduction loop over the futures
reduce_step(acc, result) ==
  IF result.second < acc.min_overall_score
  THEN [best_guess |-> result.first, min_overall_score |-> result.second]
  ELSE acc

RECURSIVE ReduceLoop(_, _, _)
ReduceLoop(res, k, acc) ==
  IF k > Len(res) THEN acc ELSE ReduceLoop(res, k + 1, reduce_step(acc, res[k]))

\* the value find_best_guess_encoded returns when hardware_concurrency() = n
find_best_guess_encoded(indices, ws, hm, prev_guess, prev_feedback, feedback_table, lookups, weights, n) ==
  IF indices = <<>> THEN 0
  ELSE LET chunks == make_word_chunks(guesses_to_check(ws, hm, prev_guess, prev_feedback), n)
           futs == make_futures(chunks)
           res == [k \in 1..Len(futs) |->
                     find_best_guess_worker(indices, chunks[futs[k]], feedback_table,
                                            lookups, ws, weights)]
       IN ReduceLoop(res, 1, [best_guess |-> 0, min_overall_score |-> DBL_MAX]).best_guess

\* ------------------------------------------------------------------------
\* Specification of the guess selector: one call of find_best_guess_encoded
\* with its worker tasks running in any order.
\* ------------------------------------------------------------------------
\* feedback_ptr of main: the table if it is loaded, else nullptr
feedback_ptr == IF loaded(table) THEN <<table>> ELSE NoTable

\* no hard mode, or hard mode after a guess of the vocabulary and the outcome
\* it had against a word of the vocabulary
HardModeArgs(ws) ==
  {[hard_mode |-> FALSE, previous_guess |-> 0, previous_feedback |-> 0]}
  \cup {[hard_mode |-> TRUE, previous_guess |-> g,
         previous_feedback |-> calculate_feedback_encoded(g, a)] :
          g \in Range(ws), a \in Range(ws)}

InitBest ==
  /\ words \in Vocabularies
  /\ \E mmap_ok \in BOOLEAN :
       \/ /\ file = NoFile
          /\ table = EmptyTable
          /\ build_ret = "none"
          /\ mmap_ok
       \/ /\ file = FileOf(BuiltFile(words))
          /\ table = load_feedback_table(file, Len(words), mmap_ok)
          /\ build_ret = "true"
  /\ tbl_pc = "ready" /\ written = 0 /\ stream_ok = TRUE /\ filt = <<>>
  /\ BestIdle
  /\ FbIdle
  /\ CodecIdle
  /\ ExtIdle

\* the call: the empty-candidates return, or the hard-mode filter, the chunks
\* and the std::async launches
FindBestCall ==
  /\ best_pc = "idle"
  /\ \E indices \in IndexLists(Len(words)), hm \in HardModeArgs(words), n \in 1..MaxThreads :
       /\ possible_indices' = indices
       /\ hard_mode' = hm.hard_mode
       /\ previous_guess' = hm.previous_guess
       /\ previous_feedback' = hm.previous_feedback
       /\ IF indices = <<>>
          THEN /\ best_guess' = 0
               /\ best_pc' = "done"
               /\ UNCHANGED <<num_threads, word_chunks, futures, results, next_future,
                              min_overall_score>>
          ELSE /\ num_threads' = n
               /\ word_chunks' =
                    make_word_chunks(
                      guesses_to_check(words, hm.hard_mode, hm.previous_guess,
                                       hm.previous_feedback), n)
               /\ futures' = make_futures(word_chunks')
               /\ results' = [k \in 1..Len(futures') |-> <<>>]
               /\ next_future' = 1
               /\ best_guess' = 0
               /\ min_overall_score' = DBL_MAX
               /\ best_pc' = "workers"
  /\ UNCHANGED <<words, tableVars, fbVars, codecVars, extVars>>

\* one worker task runs to its return
WorkerRun(k) ==
  /\ best_pc = "workers"
  /\ results[k] = <<>>
  /\ results' = [results EXCEPT ![k] =
       <<find_best_guess_worker(possible_indices, word_chunks[futures[k]], feedback_ptr,
                                build_lookup_tables(words), words,
                                compute_word_weights(words))>>]
  /\ UNCHANGED <<possible_indices, hard_mode, previous_guess, previous_feedback,
                 num_threads, word_chunks, futures, next_future,
                 best_guess, min_overall_score, best_pc,
                 words, tableVars, fbVars, codecVars, extVars>>

WorkerStep == \E k \in 1..Len(futures) : WorkerRun(k)

\* auto result = fut.get(): waits for the task of the next future
GetFuture ==
  /\ best_pc = "workers"
  /\ next_future <= Len(futures)
  /\ results[next_future] # <<>>
  /\ LET acc == reduce_step([best_guess |-> best_guess,
                             min_overall_score |-> min_overall_score],
                            results[next_future][1])
     IN /\ best_guess' = acc.best_guess
        /\ min_overall_score' = acc.min_overall_score
  /\ next_future' = next_future + 1
  /\ UNCHANGED <<possible_indices, hard_mode, previous_guess, previous_feedback,
                 num_threads, word_chunks, futures, results, best_pc,
                 words, tableVars, fbVars, codecVars, extVars>>

\* return best_guess
FindBestReturn ==
  /\ best_pc = "workers"
  /\ next_future > Len(futures)
  /\ best_pc' = "done"
  /\ UNCHANGED <<possible_indices, hard_mode, previous_guess, previous_feedback,
                 num_threads, word_chunks, futures, results, next_future,
                 best_guess, min_overall_score,
                 words, tableVars, fbVars, codecVars, extVars>>

NextBest == FindBestCall \/ WorkerStep \/ GetFuture \/ FindBestReturn

SpecBest == InitBest /\ [][NextBest]_vars

\* ------------------------------------------------------------------------
\* Specification of hard mode: one call of is_valid_hard_mode_guess, or one
\* call of find_best_guess_encoded after a previous guess and its outcome.
\* The previous guess and the answer behind the outcome are the caller's and
\* need not be words of the vocabulary that is passed.
\* ------------------------------------------------------------------------
\* the words a candidate guess or an answer is drawn from
HardWords == ValidWords \cup Pool

\* the vocabularies whose words stand in ascending order
SortedVocabularies ==
  {v \in Vocabularies : \A k \in 1..(Len(v) - 1) : v[k] < v[k + 1]}

InitHard ==
  /\ \/ /\ hard_pc = "check"
        /\ words = <<>>
        /\ hard_mode = FALSE
        /\ previous_guess \in Pool
        /\ previous_feedback \in
             {calculate_feedback_encoded(previous_guess, a) : a \in HardWords}
        /\ hard_potential_guess \in HardWords
        /\ file = NoFile /\ table = EmptyTable /\ build_ret = "none"
        /\ tbl_pc = "idle"
     \/ /\ hard_pc = "select"
        /\ words \in SortedVocabularies
        /\ \/ /\ hard_mode = TRUE
              /\ previous_guess \in Pool
              /\ previous_feedback \in
                   {calculate_feedback_encoded(previous_guess, a) : a \in Pool}
           \/ /\ hard_mode = FALSE
              /\ previous_guess = 0
              /\ previous_feedback = 0
        /\ hard_potential_guess = 0
        /\ \/ file = NoFile /\ table = EmptyTable /\ build_ret = "none"
           \/ /\ file = FileOf(BuiltFile(words))
              /\ table = load_feedback_table(file, Len(words), TRUE)
              /\ build_ret = "true"
        /\ tbl_pc = "ready"
  /\ written = 0 /\ stream_ok = TRUE /\ filt = <<>>
  /\ valid = "none"
  /\ possible_indices = <<>> /\ num_threads = 0 /\ word_chunks = <<>>
  /\ futures = <<>> /\ results = <<>> /\ next_future = 0
  /\ best_guess = 0 /\ min_overall_score = 0 /\ best_pc = "idle"
  /\ FbIdle
  /\ CodecIdle
  /\ TreeIdle
  /\ MoveIdle
  /\ SolveIdle

hardOthers ==
  <<fbVars, codecVars, words, tableVars, hard_mode, previous_guess, previous_feedback,
    futures, results, next_future, min_overall_score, best_pc, treeVars, moveVars,
    solveVars>>

\* bool is_valid_hard_mode_guess(potential_guess, previous_guess, previous_feedback)
IsValidHardModeGuess ==
  /\ hard_pc = "check"
  /\ valid' = IF is_valid_hard_mode_guess(hard_potential_guess, previous_guess,
                                          previous_feedback)
              THEN "true" ELSE "false"
  /\ hard_pc' = "checked"
  /\ UNCHANGED <<hard_potential_guess, possible_indices, num_threads, word_chunks,
                 best_guess, hardOthers>>

\* find_best_guess_encoded(indices, words, hard_mode, previous_guess,
\* previous_feedback, feedback_ptr, lookups): the chunks handed to the workers
\* and the word returned
FindBestHardMode ==
  /\ hard_pc = "select"
  /\ \E indices \in IndexLists(Len(words)), n \in 1..MaxThreads :
       /\ possible_indices' = indices
       /\ num_threads' = n
       /\ word_chunks' =
            IF indices = <<>> THEN <<>>
            ELSE make_word_chunks(
                   guesses_to_check(words, hard_mode, previous_guess, previous_feedback), n)
       /\ best_guess' =
            find_best_guess_encoded(indices, words, hard_mode, previous_guess,
                                    previous_feedback, feedback_ptr,
                                    build_lookup_tables(words),
                                    compute_word_weights(words), n)
  /\ hard_pc' = "selected"
  /\ UNCHANGED <<hard_potential_guess, valid, hardOthers>>

NextHard == IsValidHardModeGuess \/ FindBestHardMode

SpecHard == InitHard /\ [][NextHard]_vars

\* ------------------------------------------------------------------------
\* lookup_generator.cpp: the lookup file and generate_lookup_table
\* ------------------------------------------------------------------------
\* little-endian images of the integers the generator copies into the buffer;
\* every packed word of the model is below 2^31, so the upper half of its
\* eight bytes is zero
U16Bytes(v) == <<v % 256, (v \div 256) % 256>>
U32Bytes(v) == <<v % 256, (v \div 256) % 256, (v \div 65536) % 256, (v \div 16777216) % 256>>
U64Bytes(v) == U32Bytes(v) \o <<0, 0, 0, 0>>

\* the bytes of buf with the four bytes after position pos replaced
PatchU32(buf, pos, v) ==
  [i \in 1..Len(buf) |-> IF i > pos /\ i <= pos + 4 THEN U32Bytes(v)[i - pos] ELSE buf[i]]

\* sizeof(LookupHeader)
HEADER_SIZE == 32
\* count, then per entry feedback, reserved, next guess and child offset
ENTRY_SIZE == 16

\* choose_best_guess, lines 118-128: the size of the largest bucket and the
\* sum of the squared bucket sizes of a guess, with the negated weight
bucket_score(fbs, weight) ==
  LET Count(f) == Cardinality({k \in DOMAIN fbs : fbs[k] = f})
      RECURSIVE Spread(_)
      Spread(F) ==
        IF F = {} THEN 0
        ELSE LET f == CHOOSE x \in F : TRUE
             IN Count(f) * Count(f) + Spread(F \ {f})
  IN <<CHOOSE n \in {Count(f) : f \in Range(fbs)} : \A f \in Range(fbs) : Count(f) <= n,
       Spread(Range(fbs)), -weight>>

\* choose_best_guess, lines 130-150: a guess replaces the best one when there
\* is none yet or its (worst, spread, -weight) is smaller
keep_better(best, guess, candidate) ==
  IF \/ best.best_guess = 0
     \/ candidate[1] < best.score[1]
     \/ candidate[1] = best.score[1] /\ candidate[2] < best.score[2]
     \/ /\ candidate[1] = best.score[1] /\ candidate[2] = best.score[2]
        /\ candidate[3] < best.score[3]
  THEN [best_guess |-> guess, score |-> candidate]
  ELSE best

\* choose_best_guess: over all words, the least (worst bucket, sum of squared
\* bucket sizes, -weight), the first such word winning
choose_best_guess(indices, ws, feedback_table, weights) ==
  IF indices = <<>> THEN 0
  ELSE
    LET use_table == feedback_table # NoTable /\ loaded(feedback_table[1])
        Outcomes(guess_idx) ==
          [k \in 1..Len(indices) |->
             IF use_table THEN row(feedback_table[1], guess_idx)[indices[k]]
             ELSE calculate_feedback_encoded(ws[guess_idx + 1], ws[indices[k] + 1])]
        RECURSIVE GuessLoop(_, _)
        GuessLoop(guess_idx, best) ==
          IF guess_idx >= Len(ws) THEN best
          ELSE GuessLoop(guess_idx + 1,
                 keep_better(best, ws[guess_idx + 1],
                             bucket_score(Outcomes(guess_idx), weights[guess_idx + 1])))
    IN GuessLoop(0, [best_guess |-> 0, score |-> <<2 ^ 30, 2 ^ 30, 1>>]).best_guess

\* write_node, lines 204-217: the word of the bucket with the largest weight,
\* the first one winning
final_guess(subset, ws, weights) ==
  LET RECURSIVE BestLoop(_, _, _)
      BestLoop(k, best_idx, best_weight) ==
        IF k > Len(subset) THEN best_idx
        ELSE IF weights[subset[k] + 1] > best_weight
             THEN BestLoop(k + 1, subset[k], weights[subset[k] + 1])
             ELSE BestLoop(k + 1, best_idx, best_weight)
  IN ws[BestLoop(1, subset[1], 0) + 1]

\* write_node, lines 204-237: the entry of one partition
entry_data(fb, subset, remaining_depth, ctx) ==
  IF remaining_depth = 1
  THEN [feedback |-> fb, next_guess |-> final_guess(subset, ctx.ws, ctx.weights),
        subset |-> subset, bucket |-> subset]
  ELSE IF Len(subset) = 1
  THEN [feedback |-> fb, next_guess |-> ctx.ws[subset[1] + 1],
        subset |-> <<>>, bucket |-> subset]
  ELSE IF remaining_depth = 0
  THEN [feedback |-> fb, next_guess |-> 0, subset |-> <<>>, bucket |-> subset]
  ELSE [feedback |-> fb,
        next_guess |-> choose_best_guess(subset, ctx.ws, ctx.feedback_table,
                                         ctx.weights),
        subset |-> subset, bucket |-> subset]

\* write_node, lines 190-194: the indices whose outcome is fb, in their order
partition(indices, fbs, fb) ==
  LET ks == SelectSeq([k \in 1..Len(indices) |-> k], LAMBDA k : fbs[k] = fb)
  IN [j \in 1..Len(ks) |-> indices[ks[j]]]

\* write_node, lines 190-238: the entries of a node in ascending order of the
\* outcome; fbs are the outcomes of the guess against the indices
entries_of(indices, fbs, remaining_depth, ctx) ==
  LET order == AscendingSeq(Range(fbs))
  IN [k \in 1..Len(order) |->
        entry_data(order[k], partition(indices, fbs, order[k]), remaining_depth, ctx)]

\* bucket is the whole partition, subset what EntryData keeps of it
make_entries(indices, guess, remaining_depth, ctx) ==
  entries_of(indices,
                [k \in 1..Len(indices) |->
                calculate_feedback_encoded(guess, ctx.ws[indices[k] + 1])],
             remaining_depth, ctx)

RECURSIVE entry_bytes(_, _)
\* write_node, lines 245-259: feedback, reserved = 0, next guess, child = 0
entry_bytes(entries, k) ==
  IF k > Len(entries) THEN <<>>
  ELSE U16Bytes(entries[k].feedback) \o U16Bytes(0) \o U64Bytes(entries[k].next_guess)
       \o U32Bytes(0) \o entry_bytes(entries, k + 1)

\* a generator that leaves the placeholder of every entry as it was written
patch_child_Unpatched(r, descend, child_position) == r.st

\* a generator that stores the offset of the child in the node region
patch_child_NoHeader(r, descend, child_position) ==
  [r.st EXCEPT !.buffer = PatchU32(@, child_position, IF descend THEN r.offset ELSE 0)]

\* write_node, lines 273-274: the offset of the child written by r, or 0,
\* is copied into the placeholder of the entry
patch_child(r, descend, child_position) ==
  [r.st EXCEPT !.buffer =
     PatchU32(@, child_position, IF descend THEN HEADER_SIZE + r.offset ELSE 0)]

RECURSIVE write_node(_, _, _, _, _)
RECURSIVE write_children(_, _, _, _, _, _)
\* write_node, lines 261-275: the children are appended one after the other
\* and their offsets copied into the placeholders of the node
write_children(entries, idx, node_offset, remaining_depth, ctx, st) ==
  IF idx > Len(entries) THEN st
  ELSE
    LET entry == entries[idx]
        descend == remaining_depth > 1 /\ Len(entry.subset) > 1 /\ entry.next_guess # 0
    IN write_children(entries, idx + 1, node_offset, remaining_depth, ctx,
         patch_child(IF descend
                     THEN write_node(entry.subset, entry.next_guess,
                                     remaining_depth - 1, ctx, st)
                     ELSE [offset |-> 0, st |-> st],
                     descend, node_offset + 4 + ENTRY_SIZE * (idx - 1) + 12))

\* write_node, lines 240-277: the node of the entries is appended to the
\* buffer, then its children, then the memo is stored
write_entries(entries, key, guess, remaining_depth, ctx, st) ==
  LET node_offset == Len(st.buffer)
      st1 == [st EXCEPT
                !.buffer = @ \o U32Bytes(Len(entries)) \o entry_bytes(entries, 1),
                !.entries = @ \o
                   [k \in 1..Len(entries) |->
                      [at |-> node_offset + 4 + ENTRY_SIZE * (k - 1),
                       node |-> node_offset, count |-> Len(entries),
                       indices |-> key[1], feedback |-> entries[k].feedback,
                       guess |-> guess,
                       remaining_depth |-> remaining_depth,
                       bucket |-> entries[k].bucket,
                       next_guess |-> entries[k].next_guess]]]
  IN [offset |-> node_offset,
      st |-> [write_children(entries, 1, node_offset, remaining_depth, ctx, st1)
                EXCEPT !.memo = @ @@ (key :> node_offset)]]

\* write_node: st holds the buffer, the memo and the list of the entries
\* written so far (where, at which remaining depth, for which bucket)
write_node(indices, guess, remaining_depth, ctx, st) ==
  IF <<Range(indices), remaining_depth>> \in DOMAIN st.memo
  THEN [offset |-> st.memo[<<Range(indices), remaining_depth>>], st |-> st]
  ELSE write_entries(make_entries(indices, guess, remaining_depth, ctx),
                     <<Range(indices), remaining_depth>>, guess, remaining_depth,
                     ctx, st)

\* what generate_lookup_table has in memory before it opens the output: the
\* buffer, the offset of the root node and the entries written
generated_tree(ws, start, depth, feedback_table) ==
  write_node([k \in 1..Len(ws) |-> k - 1], start, IF depth > 0 THEN depth - 1 ELSE 0,
             [ws |-> ws, feedback_table |-> feedback_table,
              weights |-> compute_word_weights(ws)],
             [buffer |-> <<>>, memo |-> <<>>, entries |-> <<>>])

\* the LookupHeader image: "PLUT", version 1, depth, root offset, start word
header_bytes(depth, root_offset, start) ==
  <<80, 76, 85, 84>> \o U32Bytes(1) \o U32Bytes(depth)
  \o U32Bytes(HEADER_SIZE + root_offset) \o U64Bytes(start)
  \o decode_word(U64FromInt(start)) \o <<0, 0, 0>>

\* lines 304-306: the header, then the buffer of the tree t
file_bytes(depth, start, t) == header_bytes(depth, t.offset, start) \o t.st.buffer

\* the bytes of a completely written lookup file
generated_file(ws, start, depth, feedback_table) ==
  file_bytes(depth, start, generated_tree(ws, start, depth, feedback_table))

\* ------------------------------------------------------------------------
\* Specification of the generator: one call of generate_lookup_table from
\* main's generate mode, with an output that may fail to open or to take a
\* write.
\* ------------------------------------------------------------------------
\* kInitialGuess = encode_word("roate")
kInitialGuess == PackCodes(<<18, 15, 1, 20, 5>>)

\* the words of the generator's vocabularies: the pool, "bcdda" and "roate"
TreePool == Pool \cup {PackCodes(<<2, 3, 4, 4, 1>>), kInitialGuess}

\* word lists in ascending order of at most MaxTreeVocab words
TreeVocabularies ==
  {AscendingSeq(S) : S \in {T \in SUBSET TreePool : T # {} /\ Cardinality(T) <= MaxTreeVocab}}

\* a lookup file left at the output path by an earlier generation
PreviousLookup ==
  FileOf(generated_file(<<kInitialGuess>>, kInitialGuess, 1, NoTable))

InitGen ==
  /\ words \in TreeVocabularies
  /\ gen_start \in Range(words)
  /\ gen_depth \in 0..MaxDepth
  /\ \/ file = NoFile /\ table = EmptyTable /\ build_ret = "none"
     \/ /\ file = FileOf(BuiltFile(words))
        /\ table = load_feedback_table(file, Len(words), TRUE)
        /\ build_ret = "true"
  /\ tbl_pc = "ready" /\ written = 0 /\ stream_ok = TRUE /\ filt = <<>>
  /\ lookup_file \in {NoFile, PreviousLookup}
  /\ gen_prev = lookup_file
  /\ gen_tree = NoTree /\ gen_out = "closed" /\ gen_ret = "none" /\ gen_pc = "start"
  /\ RunIdle
  /\ HardIdle
  /\ MoveIdle
  /\ SolveIdle
  /\ BestIdle
  /\ FbIdle
  /\ CodecIdle

genOthers ==
  <<fbVars, codecVars, words, tableVars, bestVars, hardVars, runVars, moveVars,
    solveVars,
    gen_start, gen_depth, gen_prev>>

\* root_offset, the buffer and the entries of a finished write_node
built(t) == [offset |-> t.offset, buffer |-> t.st.buffer, entries |-> t.st.entries]

\* lines 162-286: the depth check, then the whole tree is built in memory
GenBuild ==
  /\ gen_pc = "start"
  /\ IF gen_depth < 1
     THEN /\ gen_ret' = "false"
          /\ gen_pc' = "exit"
          /\ UNCHANGED gen_tree
     ELSE /\ gen_tree' = built(generated_tree(words, gen_start, gen_depth, feedback_ptr))
          /\ gen_pc' = "open"
          /\ UNCHANGED gen_ret
  /\ UNCHANGED <<lookup_file, gen_out, genOthers>>

\* lines 288-292: std::ofstream out(path, binary | trunc); if (!out) return false
GenOpen ==
  /\ gen_pc = "open"
  /\ \E opened \in BOOLEAN :
       IF opened
       THEN /\ lookup_file' = FileOf(<<>>)
            /\ gen_out' = "good"
            /\ gen_pc' = "header"
            /\ UNCHANGED gen_ret
       ELSE /\ gen_ret' = "false"
            /\ gen_pc' = "exit"
            /\ UNCHANGED <<lookup_file, gen_out>>
  /\ UNCHANGED <<gen_tree, genOthers>>

\* line 304: out.write(&header, sizeof(header)); a failed write sets the
\* stream bad and nothing is tested
GenWriteHeader ==
  /\ gen_pc = "header"
  /\ \E written_ok \in BOOLEAN :
       IF written_ok
       THEN /\ lookup_file' =
                 FileOf(lookup_file.bytes
                        \o header_bytes(gen_depth, gen_tree.offset, gen_start))
            /\ UNCHANGED gen_out
       ELSE /\ gen_out' = "bad"
            /\ UNCHANGED lookup_file
  /\ gen_pc' = "body"
  /\ UNCHANGED <<gen_tree, gen_ret, genOthers>>

\* lines 305-306: out.write(buffer.data(), buffer.size()); a write that fails
\* leaves none or half of the bytes, a write on a bad stream does nothing
GenWriteBuffer ==
  /\ gen_pc = "body"
  /\ \/ /\ gen_out = "good"
        /\ lookup_file' = FileOf(lookup_file.bytes \o gen_tree.buffer)
        /\ UNCHANGED gen_out
     \/ /\ gen_out = "good"
        /\ \E n \in {0, Len(gen_tree.buffer) \div 2} :
             lookup_file' = FileOf(lookup_file.bytes \o SubSeq(gen_tree.buffer, 1, n))
        /\ gen_out' = "bad"
     \/ /\ gen_out = "bad"
        /\ UNCHANGED <<lookup_file, gen_out>>
  /\ gen_pc' = "return"
  /\ UNCHANGED <<gen_tree, gen_ret, genOthers>>

\* lines 307-309: return true, whatever the state of the stream
GenReturn ==
  /\ gen_pc = "return"
  /\ gen_ret' = "true"
  /\ gen_out' = "closed"
  /\ gen_pc' = "exit"
  /\ UNCHANGED <<lookup_file, gen_tree, genOthers>>

NextGen == GenBuild \/ GenOpen \/ GenWriteHeader \/ GenWriteBuffer \/ GenReturn

SpecGen == InitGen /\ [][NextGen]_vars

\* ------------------------------------------------------------------------
\* solver_runtime.cpp: PrecomputedLookup and run_non_interactive
\* ------------------------------------------------------------------------
\* little-endian reads of a buffer at a byte offset inside it
ReadU32(buf, off) ==
  buf[off + 1] + 256 * buf[off + 2] + 65536 * buf[off + 3] + 16777216 * buf[off + 4]
ReadU64(buf, off) == [lo |-> ReadU32(buf, off), hi |-> ReadU32(buf, off + 4)]

\* an encoded_word of the program as the two halves of its 64 bits
Word64(w) == [lo |-> w, hi |-> 0]

\* PrecomputedLookup::load on the object obj: f is the file at the path,
\* read_ok says that file.read succeeds
load(obj, f, expected_start, read_ok) ==
  IF ~f.exists THEN [ret |-> FALSE, obj |-> obj]
  ELSE IF ~read_ok THEN [ret |-> FALSE, obj |-> [obj EXCEPT !.buffer_ = <<>>]]
  ELSE
    LET b == f.bytes
        o1 == [obj EXCEPT !.buffer_ = b]
    IN IF Len(b) < HEADER_SIZE THEN [ret |-> FALSE, obj |-> o1]
       ELSE IF SubSeq(b, 1, 4) # <<80, 76, 85, 84>> THEN [ret |-> FALSE, obj |-> o1]
       ELSE IF ReadU32(b, 4) # 1 THEN [ret |-> FALSE, obj |-> o1]
       ELSE
         LET o2 == [o1 EXCEPT !.depth_ = ReadU32(b, 8), !.start_word_ = ReadU64(b, 16)]
         IN IF o2.start_word_ # Word64(expected_start) THEN [ret |-> FALSE, obj |-> o2]
            ELSE IF ReadU32(b, 12) >= Len(b) THEN [ret |-> FALSE, obj |-> o2]
            ELSE [ret |-> TRUE,
                  obj |-> [o2 EXCEPT !.root_ptr_ =
                                       [null |-> FALSE, off |-> ReadU32(b, 12)]]]

\* PrecomputedLookup::find_child: a byte read past the end of buffer_ is
\* undefined; it is recorded in oob and yields the byte junk.  Once ptr is past
\* the end every further entry reads the same junk, so the loop is cut there.
find_child(buf, node, feedback, junk) ==
  LET Byte(off) == IF off < Len(buf) THEN buf[off + 1] ELSE junk
      U16At(off) == Byte(off) + 256 * Byte(off + 1)
      U32At(off) == U16At(off) + 65536 * U16At(off + 2)
      none(oob) ==
        [guess_out |-> Zero64, child |-> NullNode, matched |-> -1, oob |-> oob]
      RECURSIVE EntryLoop(_, _, _, _)
      EntryLoop(i, count, ptr, oob) ==
        IF i >= count THEN none(oob)
        ELSE
          LET fb == U16At(ptr)
              guess == [lo |-> U32At(ptr + 4), hi |-> U32At(ptr + 8)]
              child == U32At(ptr + 12)
              oob2 == oob \/ ptr + ENTRY_SIZE > Len(buf)
          IN IF fb = feedback
             THEN [guess_out |-> guess,
                   child |-> IF child = 0 THEN NullNode
                             ELSE [null |-> FALSE, off |-> child],
                   matched |-> ptr, oob |-> oob2]
             ELSE IF ptr >= Len(buf) THEN none(TRUE)
             ELSE EntryLoop(i + 1, count, ptr + ENTRY_SIZE, oob2)
  IN IF node.null THEN none(FALSE)
     ELSE EntryLoop(0, U32At(node.off), node.off + 4, node.off + 4 > Len(buf))

\* ------------------------------------------------------------------------
\* Specification of the solver: loads of lookup_roate.bin into one
\* PrecomputedLookup, then main's solve mode with run_non_interactive.
\* ------------------------------------------------------------------------
\* a complete lookup file of depth 3 for "aabbc", "abcab", "roate"
SampleLookup ==
  generated_file(<<PackCodes(<<1, 1, 2, 2, 3>>), PackCodes(<<1, 2, 3, 1, 2>>),
                   kInitialGuess>>, kInitialGuess, 3, NoTable)

\* a file b whole and damaged: bad magic, bad version, shorter than a header;
\* a root offset at and just before the end; an entry count of 5 in the root;
\* a child offset past the end; cut inside the root and inside the child; a
\* first root entry that names the start word again and the root as its child
Damaged(b) ==
  {FileOf(b),
   FileOf(PatchU32(PatchU32(b, HEADER_SIZE + 8, kInitialGuess),
                   HEADER_SIZE + 16, HEADER_SIZE)),
   FileOf(PatchU32(b, 0, 0)), FileOf(PatchU32(b, 4, 2)), FileOf(SubSeq(b, 1, 20)),
   FileOf(PatchU32(b, 12, Len(b))), FileOf(PatchU32(b, 12, Len(b) - 1)),
   FileOf(PatchU32(b, HEADER_SIZE, 5)),
   FileOf(PatchU32(b, HEADER_SIZE + 16, Len(b) + 8)),
   FileOf(SubSeq(b, 1, HEADER_SIZE + 10)), FileOf(SubSeq(b, 1, HEADER_SIZE + 46))}

CorruptLookups == Damaged(SampleLookup)

\* what may be found at the path: nothing, the files generated for the
\* vocabulary from each of its words, the sample and the damaged files
LookupFiles(ws) ==
  {NoFile} \cup CorruptLookups
  \cup {FileOf(generated_file(ws, s, d, NoTable)) :
          s \in Range(ws) \cap {ws[1], kInitialGuess}, d \in 1..MaxDepth}

InitRun ==
  /\ words \in TreeVocabularies
  /\ lookup_file \in LookupFiles(words)
  /\ lookup_table = FreshLookup /\ load_ret = "none" /\ loads = 0
  /\ run_answer = 0 /\ run_turn = 0 /\ run_guess = Zero64 /\ run_node = NullNode
  /\ steps = <<>> /\ run_matched = -1 /\ oob_read = FALSE
  /\ run_result = "none" /\ run_pc = "main"
  /\ GenIdle
  /\ HardIdle
  /\ MoveIdle
  /\ SolveIdle
  /\ BestIdle
  /\ TableIdle
  /\ FbIdle
  /\ CodecIdle

runOthers ==
  <<fbVars, codecVars, words, tableVars, bestVars, hardVars, genVars, moveVars,
    solveVars>>

\* lookup_table.load("lookup_roate.bin", kInitialGuess) on the file at the path
Load ==
  /\ run_pc = "main"
  /\ loads < MaxLoads
  /\ \E read_ok \in BOOLEAN :
       LET r == load(lookup_table, lookup_file, kInitialGuess, read_ok)
       IN /\ lookup_table' = r.obj
          /\ load_ret' = IF r.ret THEN "true" ELSE "false"
  /\ loads' = loads + 1
  /\ UNCHANGED <<lookup_file, run_answer, run_turn, run_guess, run_node, steps,
                 run_matched, oob_read, run_result, run_pc, runOthers>>

\* solver_main.cpp, lines 217-257: without a loaded lookup solve mode ends
\* with an error; else run_non_interactive is entered for an answer of the
\* word list (lines 70-87 of solver_runtime.cpp)
SolveMain ==
  /\ run_pc = "main"
  /\ loads = 1
  /\ IF load_ret # "true"
     THEN /\ run_result' = "lookup-not-found"
          /\ run_pc' = "done"
          /\ UNCHANGED <<run_answer, run_turn, run_guess, run_node>>
     ELSE IF lookup_table.root_ptr_.null
     THEN /\ run_result' = "lookup-required"
          /\ run_pc' = "done"
          /\ UNCHANGED <<run_answer, run_turn, run_guess, run_node>>
     ELSE /\ run_answer' \in Range(words)
          /\ run_turn' = 1
          /\ run_guess' = Word64(kInitialGuess)
          /\ run_node' = lookup_table.root_ptr_
          /\ run_pc' = "loop"
          /\ UNCHANGED run_result
  /\ UNCHANGED <<lookup_file, lookup_table, load_ret, loads, steps, run_matched,
                 oob_read, runOthers>>

\* a loop that allows a seventh turn
turn_budget_spent_Seven(turn) == turn = 7

\* line 128: if (turn == 6)
turn_budget_spent(turn) == turn = 6

\* one turn of the loop of run_non_interactive (lines 95-157); a read outside
\* the buffer either ends the process or goes on with the junk it read
RunTurn ==
  /\ run_pc = "loop"
  /\ LET feedback_val == calculate_feedback_encoded(run_guess.lo, run_answer)
     IN /\ steps' = Append(steps, [guess |-> run_guess, feedback |-> feedback_val])
        /\ IF feedback_val = AllCorrect
           THEN /\ run_result' = "solved"
                /\ run_pc' = "done"
                /\ UNCHANGED <<run_turn, run_guess, run_node, run_matched, oob_read>>
           ELSE IF turn_budget_spent(run_turn)
           THEN /\ run_result' = "failed-depth"
                /\ run_pc' = "done"
                /\ UNCHANGED <<run_turn, run_guess, run_node, run_matched, oob_read>>
           ELSE IF run_node.null
           THEN /\ run_result' = "failed-missing-node"
                /\ run_pc' = "done"
                /\ UNCHANGED <<run_turn, run_guess, run_node, run_matched, oob_read>>
           ELSE \E junk \in {0, 1}, fault \in BOOLEAN :
                  LET r == find_child(lookup_table.buffer_, run_node, feedback_val, junk)
                  IN /\ oob_read' = (oob_read \/ r.oob)
                     /\ run_matched' = r.matched
                     /\ IF r.oob /\ fault
                        THEN /\ run_result' = "fault"
                             /\ run_pc' = "done"
                             /\ UNCHANGED <<run_turn, run_guess, run_node>>
                        ELSE IF r.guess_out = Zero64
                        THEN /\ run_result' = "failed-branch"
                             /\ run_pc' = "done"
                             /\ UNCHANGED <<run_turn, run_guess, run_node>>
                        ELSE /\ run_guess' = r.guess_out
                             /\ run_node' = r.child
                             /\ run_turn' = run_turn + 1
                             /\ UNCHANGED <<run_result, run_pc>>
  /\ UNCHANGED <<lookup_file, lookup_table, load_ret, loads, run_answer, runOthers>>

NextRun == Load \/ SolveMain \/ RunTurn

SpecRun == InitRun /\ [][NextRun]_vars

\* ------------------------------------------------------------------------
\* Specification of the FeedbackTable objects of a process: tables returned
\* by load_feedback_table, move construction, move assignment, destruction.
\* ------------------------------------------------------------------------
\* FeedbackTable::release: the mapping is unmapped, owned_data is not touched
release(t) ==
  [t EXCEPT !.mapped_data = NullPtr, !.mapping_length = 0,
            !.guess_count = 0, !.answer_count = 0]

\* a move assignment that copies the fields and leaves the source as it was
move_assign_KeepSource(this, other) ==
  [this |-> [release(this) EXCEPT !.guess_count = other.guess_count,
                                  !.answer_count = other.answer_count,
                                  !.owned_data = other.owned_data,
                                  !.mapped_data = other.mapped_data,
                                  !.mapping_length = other.mapping_length],
   other |-> other]

\* FeedbackTable::operator=(FeedbackTable &&) for this != &other; the
\* std::vector move assignment frees the buffer of this and leaves the vector
\* of other empty
move_assign(this, other) ==
  [this |-> [release(this) EXCEPT !.guess_count = other.guess_count,
                                  !.answer_count = other.answer_count,
                                  !.owned_data = other.owned_data,
                                  !.mapped_data = other.mapped_data,
                                  !.mapping_length = other.mapping_length],
   other |-> [other EXCEPT !.owned_data = <<>>, !.mapped_data = NullPtr,
                           !.mapping_length = 0, !.guess_count = 0,
                           !.answer_count = 0]]

\* the mappings a table holds: 1 if mapped_data is not null
Held(t) == IF t.mapped_data.null THEN 0 ELSE 1

Slots == 1..MaxTables

InitMove ==
  /\ words \in Vocabularies
  /\ file \in {NoFile, FileOf(BuiltFile(words))} \cup StaleFiles
  /\ tbl_pc = "idle" /\ written = 0 /\ stream_ok = TRUE
  /\ build_ret = "none" /\ table = EmptyTable /\ filt = <<>>
  /\ tbl_objects = [i \in Slots |-> EmptyTable]
  /\ tbl_alive = {}
  /\ tbl_moved = {}
  /\ live_mappings = 0
  /\ HardIdle
  /\ TreeIdle
  /\ SolveIdle
  /\ BestIdle
  /\ FbIdle
  /\ CodecIdle

moveOthers ==
  <<fbVars, codecVars, words, tableVars, bestVars, hardVars, treeVars, solveVars>>

\* FeedbackTable t = load_feedback_table(path, words.size()): the local table
\* is the result itself, or the result is move-constructed from it
LoadFeedbackTable(i) ==
  /\ i \notin tbl_alive
  /\ \E mmap_ok \in BOOLEAN, elided \in BOOLEAN :
       LET t == load_feedback_table(file, Len(words), mmap_ok)
           r == IF elided THEN t ELSE move_assign(EmptyTable, t).this
       IN /\ tbl_objects' = [tbl_objects EXCEPT ![i] = r]
          /\ live_mappings' = live_mappings + Held(r)
  /\ tbl_alive' = tbl_alive \cup {i}
  /\ tbl_moved' = tbl_moved \ {i}
  /\ UNCHANGED moveOthers

\* FeedbackTable(FeedbackTable &&other): *this = std::move(other) on the
\* default member values
MoveConstruct(i, j) ==
  /\ i \notin tbl_alive
  /\ j \in tbl_alive
  /\ LET r == move_assign(EmptyTable, tbl_objects[j])
     IN tbl_objects' = [tbl_objects EXCEPT ![i] = r.this, ![j] = r.other]
  /\ tbl_alive' = tbl_alive \cup {i}
  /\ tbl_moved' = (tbl_moved \ {i}) \cup {j}
  /\ UNCHANGED <<live_mappings, moveOthers>>

\* a = std::move(b), a self-move included
MoveAssign(i, j) ==
  /\ i \in tbl_alive
  /\ j \in tbl_alive
  /\ IF i = j
     THEN UNCHANGED <<tbl_objects, tbl_moved, live_mappings>>
     ELSE LET r == move_assign(tbl_objects[i], tbl_objects[j])
          IN /\ tbl_objects' = [tbl_objects EXCEPT ![i] = r.this, ![j] = r.other]
             /\ tbl_moved' = (tbl_moved \ {i}) \cup {j}
             /\ live_mappings' = live_mappings - Held(tbl_objects[i])
  /\ UNCHANGED <<tbl_alive, moveOthers>>

\* ~FeedbackTable(): release(), then the members are destroyed
Destroy(i) ==
  /\ i \in tbl_alive
  /\ tbl_objects' = [tbl_objects EXCEPT ![i] = EmptyTable]
  /\ live_mappings' = live_mappings - Held(tbl_objects[i])
  /\ tbl_alive' = tbl_alive \ {i}
  /\ tbl_moved' = tbl_moved \ {i}
  /\ UNCHANGED moveOthers

NextMove ==
  \/ \E i \in Slots : LoadFeedbackTable(i)
  \/ \E i \in Slots, j \in Slots : MoveConstruct(i, j)
  \/ \E i \in Slots, j \in Slots : MoveAssign(i, j)
  \/ \E i \in Slots : Destroy(i)

SpecMove == InitMove /\ [][NextMove]_vars

\* ------------------------------------------------------------------------
\* solver.cpp: the single-file solver with its own selector, lookup
\* reader, generator and solve loop
\* ------------------------------------------------------------------------
RECURSIVE solver_WorkerLoop(_, _, _, _, _, _, _)
\* find_best_guess_worker, lines 441-479: for (const auto &guess : guess_subset)
solver_WorkerLoop(indices, guess_subset, k, st, feedback_table, lookups, ws) ==
  IF k > Len(guess_subset) THEN st
  ELSE
    LET guess == guess_subset[k]
        use_table == feedback_table # NoTable /\ loaded(feedback_table[1])
    IN IF use_table /\ guess \notin DOMAIN lookups
       THEN solver_WorkerLoop(indices, guess_subset, k + 1, st, feedback_table, lookups, ws)
       ELSE
         LET fbs == GuessFeedbacks(indices, guess, use_table, feedback_table, lookups, ws)
             r == ScoreLoop(fbs, 1, [f \in Range(fbs) |-> 0], 0, st.local_min_score, TRUE)
         IN solver_WorkerLoop(indices, guess_subset, k + 1,
              IF ~r.pruned /\ r.score < st.local_min_score
              THEN [local_best_guess |-> guess, local_min_score |-> r.score]
              ELSE st,
              feedback_table, lookups, ws)

\* find_best_guess_worker of solver.cpp: {local_best_guess, local_min_score}
solver_find_best_guess_worker(indices, guess_subset, feedback_table, lookups, ws) ==
  LET st == solver_WorkerLoop(indices, guess_subset, 1,
                              [local_best_guess |-> 0, local_min_score |-> DBL_MAX],
                              feedback_table, lookups, ws)
  IN [first |-> st.local_best_guess, second |-> st.local_min_score]

\* find_best_guess_encoded of solver.cpp when hardware_concurrency() = n
solver_find_best_guess_encoded(indices, ws, hm, prev_guess, prev_feedback, feedback_table, lookups, n) ==
  IF indices = <<>> THEN 0
  ELSE LET chunks == make_word_chunks(guesses_to_check(ws, hm, prev_guess, prev_feedback), n)
           futs == make_futures(chunks)
           res == [k \in 1..Len(futs) |->
                     solver_find_best_guess_worker(indices, chunks[futs[k]],
                                                   feedback_table, lookups, ws)]
       IN ReduceLoop(res, 1, [best_guess |-> 0, min_overall_score |-> DBL_MAX]).best_guess

\* a little-endian uint16_t of a buffer at a byte offset inside it
ReadU16(buf, off) == buf[off + 1] + 256 * buf[off + 2]

\* PrecomputedLookup::find_child of solver.cpp: guess_out is 0 at the call;
\* every packed word of the model is below 2^31, so the guess is the lower
\* half of its eight bytes
solver_find_child(buf, node, feedback) ==
  LET none == [guess_out |-> 0, depth_limited |-> FALSE, child |-> NullNode]
      RECURSIVE EntryLoop(_, _, _)
      EntryLoop(i, count, ptr) ==
        IF i >= count THEN none
        ELSE IF ReadU16(buf, ptr) = feedback
        THEN IF ReadU16(buf, ptr + 2) # 0
             THEN [guess_out |-> 0, depth_limited |-> TRUE, child |-> NullNode]
             ELSE [guess_out |-> ReadU64(buf, ptr + 4).lo, depth_limited |-> FALSE,
                   child |-> IF ReadU32(buf, ptr + 12) = 0 THEN NullNode
                             ELSE [null |-> FALSE, off |-> ReadU32(buf, ptr + 12)]]
        ELSE EntryLoop(i + 1, count, ptr + ENTRY_SIZE)
  IN IF node.null THEN none
     ELSE EntryLoop(0, ReadU32(buf, node.off), node.off + 4)

\* write_node, lines 983-991: the search without the table when the one with
\* the table gave no guess
solver_retry_without_table(next, subset, guess, fb, ctx) ==
  IF next = 0
  THEN solver_find_best_guess_encoded(subset, ctx.ws, FALSE, guess, fb, NoTable,
                                      ctx.lookups, ctx.n)
  ELSE next

\* a generator that takes the last candidate of a partition as its next guess
solver_next_guess_LastCandidate(subset, guess, fb, ctx) ==
  ctx.ws[subset[Len(subset)] + 1]

\* write_node, lines 978-992: the next guess of one partition
solver_next_guess(subset, guess, fb, ctx) ==
  solver_retry_without_table(
    IF Len(subset) = 1 THEN ctx.ws[subset[1] + 1]
    ELSE IF ctx.feedback_table # NoTable /\ loaded(ctx.feedback_table[1])
    THEN solver_find_best_guess_encoded(subset, ctx.ws, FALSE, guess, fb,
                                        ctx.feedback_table, ctx.lookups, ctx.n)
    ELSE 0,
    subset, guess, fb, ctx)

\* write_node, lines 963-993: the entries of a node in ascending order of the
\* outcome; fbs are the outcomes of the guess against the indices
solver_entries(indices, guess, fbs, ctx) ==
  LET order == AscendingSeq(Range(fbs))
  IN [k \in 1..Len(order) |->
        [feedback |-> order[k],
         next_guess |-> solver_next_guess(partition(indices, fbs, order[k]), guess,
                                          order[k], ctx),
         subset |-> partition(indices, fbs, order[k])]]

\* write_node, lines 1003-1004
solver_flags(remaining_depth, subset) ==
  IF remaining_depth <= 1 /\ Len(subset) > 1 THEN 1 ELSE 0

RECURSIVE solver_entry_bytes(_, _, _)
\* write_node, lines 1001-1016: feedback, flags, next guess, child = 0
solver_entry_bytes(entries, k, remaining_depth) ==
  IF k > Len(entries) THEN <<>>
  ELSE U16Bytes(entries[k].feedback)
       \o U16Bytes(solver_flags(remaining_depth, entries[k].subset))
       \o U64Bytes(entries[k].next_guess) \o U32Bytes(0)
       \o solver_entry_bytes(entries, k + 1, remaining_depth)

\* write_node, lines 1024-1026: the offset of the child, or 0, is copied into
\* the placeholder of the entry
solver_patch_child(r, descend, child_position) ==
  PatchU32(r.buffer, child_position, IF descend THEN HEADER_SIZE + r.offset ELSE 0)

RECURSIVE solver_write_node(_, _, _, _, _)
RECURSIVE solver_write_children(_, _, _, _, _, _)
\* write_node, lines 1018-1027: the children are appended one after the other
solver_write_children(entries, idx, node_offset, remaining_depth, ctx, buffer) ==
  IF idx > Len(entries) THEN buffer
  ELSE
    LET entry == entries[idx]
        descend == remaining_depth > 1 /\ Len(entry.subset) > 1
    IN solver_write_children(entries, idx + 1, node_offset, remaining_depth, ctx,
         solver_patch_child(IF descend
                            THEN solver_write_node(entry.subset, entry.next_guess,
                                                   remaining_depth - 1, ctx, buffer)
                            ELSE [offset |-> 0, buffer |-> buffer],
                            descend, node_offset + 4 + ENTRY_SIZE * (idx - 1) + 12))

\* write_node, lines 995-1029: the count and the entries, then the children
solver_write_entries(entries, remaining_depth, ctx, buffer) ==
  [offset |-> Len(buffer),
   buffer |-> solver_write_children(entries, 1, Len(buffer), remaining_depth, ctx,
                buffer \o U32Bytes(Len(entries))
                \o solver_entry_bytes(entries, 1, remaining_depth))]

\* the write_node lambda of solver.cpp's generate_lookup_table
solver_write_node(indices, guess, remaining_depth, ctx, buffer) ==
  solver_write_entries(
    solver_entries(indices, guess,
                   [k \in 1..Len(indices) |->
                      calculate_feedback_encoded(guess, ctx.ws[indices[k] + 1])],
                   ctx),
    remaining_depth, ctx, buffer)

\* lines 1046-1053: the header for the root written by r, then the buffer
solver_file_bytes(depth, start, r) == header_bytes(depth, r.offset, start) \o r.buffer

\* generate_lookup_table of solver.cpp with an output that takes every write:
\* the file it leaves at the path, which is not touched when depth < 2
solver_generate_lookup_table(ws, start, depth, feedback_table, n) ==
  IF depth < 2 THEN NoFile
  ELSE FileOf(solver_file_bytes(depth, start,
         solver_write_node([k \in 1..Len(ws) |-> k - 1], start, depth,
                           [ws |-> ws, feedback_table |-> feedback_table,
                            lookups |-> build_lookup_tables(ws), n |-> n],
                           <<>>)))

\* run_non_interactive, lines 604-625: the guess the tree holds for the last
\* outcome; r is what find_child returned
take_lookup(s, r) ==
  IF ~r.depth_limited /\ r.guess_out # 0
  THEN [s EXCEPT !.guess = r.guess_out, !.lookup_node = r.child,
                 !.lookup_level = @ + 1, !.used_lookup = TRUE]
  ELSE [s EXCEPT !.lookup_node = NullNode]

\* a loop that consults the tree again after live search: the search puts
\* the node back to the root
after_search_Root(s, guess, ctx) ==
  [s EXCEPT !.guess = guess,
            !.lookup_node = IF ctx.precomputed # <<>>
                            THEN ctx.precomputed[1].root_ptr_ ELSE NullNode]

\* lines 640-642: the guess of the search is taken and the tree is left
after_search(s, guess, ctx) == [s EXCEPT !.guess = guess, !.lookup_node = NullNode]

\* lines 627-644: the guess of a turn that did not use the tree
live_guess(s, ctx) ==
  IF s.used_lookup THEN s
  ELSE IF s.turn = 1 THEN [s EXCEPT !.guess = kInitialGuess]
  ELSE IF Len(s.possible_indices) = 1
  THEN [s EXCEPT !.guess = ctx.ws[s.possible_indices[1] + 1]]
  ELSE after_search(s, solver_find_best_guess_encoded(s.possible_indices, ctx.ws,
                         ctx.hard_mode, s.guess, s.feedback_val, ctx.feedback_table,
                         ctx.lookups, ctx.n),
                    ctx)

\* lines 653-665 and 677: feedback_str == "ggggg"
all_green(feedback_val) == \A i \in 0..4 : (feedback_val \div (3 ^ i)) % 3 = 2

\* lines 684-686 and the loop condition: the candidates are filtered, the
\* turn is counted
next_turn(s, feedback_val, ctx) ==
  [s EXCEPT !.feedback_val = feedback_val,
            !.possible_indices =
               filter_candidate_indices(@, s.guess, feedback_val, ctx.feedback_table,
                                        ctx.lookups, ctx.ws),
            !.turn = @ + 1,
            !.exit = IF s.turn + 1 <= 6 /\ s.guess # ctx.answer
                     THEN "running" ELSE "out-of-turns"]

\* lines 646-687: the sentinel ends the loop; else the outcome is computed
\* and recorded with the source of the guess and the candidates of the turn
play_guess(s, feedback_val, candidates, ctx) ==
  IF s.guess = 0 THEN [s EXCEPT !.exit = "failed"]
  ELSE
    IF all_green(feedback_val)
    THEN [s EXCEPT !.feedback_val = feedback_val, !.exit = "solved",
                   !.steps = Append(@, [guess |-> s.guess, feedback |-> feedback_val,
                                        used_lookup |-> s.used_lookup,
                                        candidates |-> candidates])]
    ELSE next_turn([s EXCEPT !.steps =
                      Append(@, [guess |-> s.guess, feedback |-> feedback_val,
                                 used_lookup |-> s.used_lookup,
                                 candidates |-> candidates])],
                   feedback_val, ctx)

\* lines 604-625: the tree is asked when there is one, a node and a level left
lookup_guess(s, ctx) ==
  IF /\ ~ctx.hard_mode /\ ctx.precomputed # <<>> /\ ~s.lookup_node.null
     /\ s.turn > 1 /\ s.lookup_level < ctx.lookup_max
  THEN take_lookup(s, solver_find_child(ctx.precomputed[1].buffer_, s.lookup_node,
                                        s.feedback_val))
  ELSE s

\* the guess of the turn is known in s
finish_turn(s, candidates, ctx) ==
  play_guess(s, calculate_feedback_encoded(s.guess, ctx.answer), candidates, ctx)

\* one turn of the loop of run_non_interactive (lines 599-687) on its locals s
loop_body(s, ctx) ==
  finish_turn(live_guess(lookup_guess([s EXCEPT !.used_lookup = FALSE], ctx), ctx),
              s.possible_indices, ctx)

\* lines 583-591: the locals of run_non_interactive before the loop
solve_locals(ws, precomputed) ==
  [possible_indices |-> [k \in 1..Len(ws) |-> k - 1], turn |-> 1, guess |-> 0,
   feedback_val |-> 0,
   lookup_node |-> IF precomputed # <<>> THEN precomputed[1].root_ptr_ ELSE NullNode,
   lookup_level |-> 0, used_lookup |-> FALSE, steps |-> <<>>, exit |-> "running"]

\* lines 589-590: lookup_max
lookup_max_of(precomputed) ==
  IF precomputed # <<>> /\ precomputed[1].depth_ > 0 THEN precomputed[1].depth_ - 1 ELSE 0

\* the arguments of run_non_interactive
solve_args(answer, ws, hm, feedback_table, n, precomputed) ==
  [answer |-> answer, ws |-> ws, hard_mode |-> hm, feedback_table |-> feedback_table,
   lookups |-> build_lookup_tables(ws), n |-> n, precomputed |-> precomputed,
   lookup_max |-> lookup_max_of(precomputed)]

RECURSIVE run_non_interactive(_, _)
\* the whole loop: the locals when run_non_interactive returns
run_non_interactive(s, ctx) ==
  IF s.exit # "running" THEN s ELSE run_non_interactive(loop_body(s, ctx), ctx)

\* ------------------------------------------------------------------------
\* Specification of solver.cpp's solve mode: main loads lookup_roate.bin
\* unless hard mode or --disable-lookup forbid it, then run_non_interactive
\* plays its turns.
\* ------------------------------------------------------------------------
\* words without a letter of "roate", three of which differ in the last
\* letter only (bbbbc, bbbbd, bbbbf, bcbdd), and words that end in its e
\* (bddde, dedde)
SolvePool ==
  {PackCodes(<<2, 2, 2, 2, 3>>), PackCodes(<<2, 2, 2, 2, 4>>),
   PackCodes(<<2, 2, 2, 2, 6>>), PackCodes(<<2, 3, 2, 4, 4>>),
   PackCodes(<<2, 4, 4, 4, 5>>), PackCodes(<<4, 5, 4, 4, 5>>)}

\* a word list for hard mode: four answers that differ in the last letter
\* only (zzccd, zzccf, zzccg, zzcch) and three words that each hold the last
\* letter of one of them (ccdbr, fccbr, gbcbr), with "roate"
HardSolveWords ==
  AscendingSeq({PackCodes(<<3, 3, 4, 2, 18>>), PackCodes(<<6, 3, 3, 2, 18>>),
                PackCodes(<<7, 2, 3, 2, 18>>), kInitialGuess,
                PackCodes(<<26, 26, 3, 3, 4>>), PackCodes(<<26, 26, 3, 3, 6>>),
                PackCodes(<<26, 26, 3, 3, 7>>), PackCodes(<<26, 26, 3, 3, 8>>)})

\* word lists in ascending order that hold "roate": at most MaxTreeVocab
\* words of the pool, or the hard-mode list
SolveVocabularies ==
  {AscendingSeq(S \cup {kInitialGuess}) :
     S \in {T \in SUBSET SolvePool : T # {} /\ Cardinality(T) < MaxTreeVocab}}
  \cup {HardSolveWords}

\* the word list of an earlier build: "bbbbc" and "roate"
StaleWords == <<PackCodes(<<2, 2, 2, 2, 3>>), kInitialGuess>>

\* what may be found at the path of lookup_roate.bin: nothing, a file
\* generated for the word list with the same number of workers, with or
\* without the feedback table, or a file generated for an earlier word list
SolveLookupFiles(origin, ws, built_table, n) ==
  IF origin = "none" THEN {NoFile}
  ELSE IF origin = "generated"
  THEN {solver_generate_lookup_table(ws, kInitialGuess, d, t, n) :
          d \in 2..MaxDepth, t \in {NoTable, <<built_table>>}}
  ELSE {solver_generate_lookup_table(StaleWords, kInitialGuess, MaxDepth, NoTable, n)}

InitSolve ==
  /\ words \in SolveVocabularies
  /\ solve_hard_mode \in BOOLEAN
  /\ disable_lookup \in BOOLEAN
  /\ hw_threads \in 1..MaxThreads
  /\ \/ file = NoFile /\ table = EmptyTable /\ build_ret = "none"
     \/ /\ file = FileOf(BuiltFile(words))
        /\ table = load_feedback_table(file, Len(words), TRUE)
        /\ build_ret = "true"
  /\ tbl_pc = "ready" /\ written = 0 /\ stream_ok = TRUE /\ filt = <<>>
  /\ lookup_origin \in {"none", "generated", "stale"}
  /\ lookup_file \in
       SolveLookupFiles(lookup_origin, words,
                        load_feedback_table(FileOf(BuiltFile(words)), Len(words), TRUE),
                        hw_threads)
  /\ lookup_ptr = <<>> /\ encoded_answer = 0 /\ locals = NoLocals
  /\ solve_pc = "main"
  /\ GenIdle
  /\ RunIdle
  /\ HardIdle
  /\ MoveIdle
  /\ BestIdle
  /\ FbIdle
  /\ CodecIdle

solveOthers ==
  <<fbVars, codecVars, words, tableVars, bestVars, hardVars, treeVars, moveVars,
    solve_hard_mode, disable_lookup, hw_threads, lookup_origin>>

\* main, lines 882-886: the lookup is loaded unless hard mode or
\* --disable-lookup forbid it
main_lookup_ptr(hm, disabled, f) ==
  IF ~hm /\ ~disabled /\ load(FreshLookup, f, kInitialGuess, TRUE).ret
  THEN <<load(FreshLookup, f, kInitialGuess, TRUE).obj>>
  ELSE <<>>

\* main, lines 882-921: the word to solve is encoded and looked up in the
\* word index; run_non_interactive is entered for a word of the list
MainSolve ==
  /\ solve_pc = "main"
  /\ \E a \in SolvePool \cup Range(words) :
       /\ encoded_answer' = a
       /\ IF a \notin DOMAIN build_lookup_tables(words)
          THEN /\ solve_pc' = "done"
               /\ UNCHANGED <<lookup_ptr, locals>>
          ELSE /\ lookup_ptr' = main_lookup_ptr(solve_hard_mode, disable_lookup, lookup_file)
               /\ locals' = solve_locals(words, lookup_ptr')
               /\ solve_pc' = "loop"
  /\ UNCHANGED solveOthers

\* one turn of the loop of run_non_interactive
SolveTurn ==
  /\ solve_pc = "loop"
  /\ locals' = loop_body(locals, solve_args(encoded_answer, words, solve_hard_mode,
                                            feedback_ptr, hw_threads, lookup_ptr))
  /\ solve_pc' = IF locals'.exit = "running" THEN "loop" ELSE "done"
  /\ UNCHANGED <<lookup_ptr, encoded_answer, solveOthers>>

NextSolve == MainSolve \/ SolveTurn

SpecSolve == InitSolve /\ [][NextSolve]_vars

\* ------------------------------------------------------------------------
\* Claims about the feedback codec (SpecFeedback)
\* ------------------------------------------------------------------------
Digit(fb, i) == (fb \div (3 ^ (4 - i))) % 3

\* C1: the result marks position i with 2 exactly when guess[i] = answer[i];
\* a non-green guess position holding letter c is marked 1 exactly when fewer
\* non-green guess positions to its left hold c than the answer has non-green
\* positions holding c (so, per letter, the leftmost
\* min(non-green in guess, non-green in answer) positions are marked 1);
\* every other position is 0; and the result is the base-3 number of the
\* five digits, position 0 most significant.
C1_FeedbackSemantics ==
  fb_pc = "return" =>
    LET g == [i \in 0..4 |-> get_char_code_at(guess_encoded, i)]
        a == [i \in 0..4 |-> get_char_code_at(answer_encoded, i)]
        d == [i \in 0..4 |-> Digit(final_feedback, i)]
        nongreen == {i \in 0..4 : g[i] # a[i]}
    IN /\ final_feedback \in 0..242
       /\ \A i \in 0..4 : d[i] = 2 <=> g[i] = a[i]
       /\ \A i \in nongreen :
            d[i] = IF Cardinality({j \in nongreen : j < i /\ g[j] = g[i]})
                        < Cardinality({j \in nongreen : a[j] = g[i]})
                   THEN 1 ELSE 0

\* A scored pair with a green, and a letter that is yellow at its first
\* non-green position and absent at a later one.
C1_Witness ==
  /\ fb_pc = "return"
  /\ \E k \in 0..4 : Digit(final_feedback, k) = 2
  /\ \E i \in 0..4, j \in 0..4 :
       /\ i < j
       /\ get_char_code_at(guess_encoded, i) = get_char_code_at(guess_encoded, j)
       /\ Digit(final_feedback, i) = 1
       /\ Digit(final_feedback, j) = 0

\* C2: the result is the all-correct code 242 if and only if guess = answer.
C2_AllCorrectIffEqual ==
  fb_pc = "return" => (final_feedback = AllCorrect <=> guess_encoded = answer_encoded)

\* A word of different letters scored against itself.
C2_Witness ==
  /\ fb_pc = "return"
  /\ guess_encoded = answer_encoded
  /\ final_feedback = AllCorrect
  /\ get_char_code_at(guess_encoded, 0) # get_char_code_at(guess_encoded, 1)

\* ------------------------------------------------------------------------
\* Claims about the word codec (SpecCodec)
\* ------------------------------------------------------------------------
\* C3: decode_word(encode_word(w)) = w for every 5-letter word over 'a'..'z'.
C3_DecodeEncode ==
  (codec_pc = "decoded" /\ IsLowercaseWord(word)) => decoded = word

\* A lowercase word with different letters that was encoded and decoded.
C3_Witness ==
  /\ codec_pc = "decoded"
  /\ IsLowercaseWord(word)
  /\ word[1] # word[2] /\ word[1] # word[5]
  /\ encoded.lo > 0

\* C4: encode_word returns the zero sentinel for every input whose length is
\* not 5 or that holds a character outside 'a'..'z', and no such input adds a
\* non-zero packed value to a loaded word list.
C4_EncodeRejectsMalformed ==
  /\ (codec_pc = "encoded" /\ ~IsLowercaseWord(word)) => encoded = U64Zero
  /\ (codec_pc = "loaded" /\ ~IsLowercaseWord([k \in 1..Len(word) |-> tolower(word[k])])) =>
       \A k \in 1..Len(loaded_words) : loaded_words[k] = U64Zero

\* ------------------------------------------------------------------------
\* Claims about the feedback-table cache (SpecTable)
\* ------------------------------------------------------------------------
\* C5: for every guess (in the vocabulary index or not), every list of
\* candidate indices and every outcome code, filter_candidate_indices returns
\* the same list with a loaded table built from the vocabulary as with no table.
C5_FilterTableEqualsDirect ==
  (build_ret = "true" /\ loaded(table)) =>
    \A k \in 1..Len(filt) : filt[k].with_table = filt[k].direct

\* C6: after a build that returns true the file holds exactly N*N bytes, and
\* the byte at g*N + a, which is what row(g)[a] of the table loaded from it
\* returns, is calculate_feedback_encoded(words[g], words[a]).
C6_BuiltFileMatchesFeedback ==
  build_ret = "true" =>
    LET N == Len(words)
    IN /\ file.exists
       /\ Len(file.bytes) = N * N
       /\ \A g \in 0..(N - 1), a \in 0..(N - 1) :
            file.bytes[g * N + a + 1] =
              calculate_feedback_encoded(words[g + 1], words[a + 1])
       /\ tbl_pc = "ready" =>
            /\ loaded(table)
            /\ \A g \in 0..(N - 1), a \in 0..(N - 1) :
                 row(table, g)[a] =
                   calculate_feedback_encoded(words[g + 1], words[a + 1])

\* A table mapped from a file built for three words, two of which score each
\* other differently in the two directions.
C6_Witness ==
  /\ build_ret = "true"
  /\ tbl_pc = "ready"
  /\ Len(words) = 3
  /\ ~table.mapped_data.null
  /\ row(table, 0)[1] # row(table, 1)[0]

\* C7: load_feedback_table returns a table that is not loaded whenever the
\* file is missing or its size differs from N*N, smaller or larger.
C7_LoadRejectsMissingOrMissized ==
  (tbl_pc = "ready" /\ (~file.exists \/ Len(file.bytes) # Len(words) * Len(words)))
    => ~loaded(table)

\* ------------------------------------------------------------------------
\* Claims about the guess selector (SpecBest)
\* ------------------------------------------------------------------------
\* C8: for fixed candidates and vocabulary the returned guess is the same for
\* every number of worker chunks: the call with num_threads chunks returns
\* what the call with one chunk returns.
C8_SameGuessForEveryChunkCount ==
  best_pc = "done" =>
    best_guess =
      find_best_guess_encoded(possible_indices, words, hard_mode, previous_guess,
                              previous_feedback, feedback_ptr,
                              build_lookup_tables(words), compute_word_weights(words), 1)

\* the sum of the squared bucket sizes of a guess over the candidates
SumOfSquares(guess, indices, ws) ==
  LET fb(k) == calculate_feedback_encoded(guess, ws[indices[k] + 1])
  IN Cardinality({<<j, k>> \in (1..Len(indices)) \X (1..Len(indices)) : fb(j) = fb(k)})

WeightOf(guess, ws) == compute_word_weights(ws)[build_lookup_tables(ws)[guess] + 1]

\* the guesses of a list with the lowest score, and among them those with the
\* highest weight
LowestScore(guesses, indices, ws) ==
  {g \in Range(guesses) :
     \A h \in Range(guesses) : SumOfSquares(g, indices, ws) <= SumOfSquares(h, indices, ws)}
HighestWeight(S, ws) == {g \in S : \A h \in S : WeightOf(g, ws) >= WeightOf(h, ws)}

\* C9: among the guesses that attain the lowest score the one with the
\* highest weight is returned, inside one chunk and across the chunks.
C9_LowestScoreThenHighestWeight ==
  /\ \A k \in 1..Len(results) :
       results[k] # <<>> =>
         results[k][1].first \in
           HighestWeight(LowestScore(word_chunks[futures[k]], possible_indices, words), words)
  /\ (best_pc = "done" /\ possible_indices # <<>> /\ futures # <<>>) =>
       best_guess \in
         HighestWeight(
           LowestScore(guesses_to_check(words, hard_mode, previous_guess, previous_feedback),
                       possible_indices, words), words)

\* the worker's selection with every guess scored to the end
worker_without_early_abandon(indices, guess_subset, feedback_table, lookups, ws, weights) ==
  LET st == WorkerLoop(indices, guess_subset, 1,
                       [local_best_guess |-> 0, local_min_score |-> DBL_MAX,
                        local_best_weight |-> 0],
                       feedback_table, lookups, ws, weights, FALSE)
  IN [first |-> st.local_best_guess, second |-> st.local_min_score]

\* C10: find_best_guess_worker with its early-abandon rule returns the guess
\* that the same selection returns with every guess's full score computed.
C10_EarlyAbandonSameGuess ==
  \A k \in 1..Len(results) :
    results[k] # <<>> =>
      results[k][1].first =
        worker_without_early_abandon(possible_indices, word_chunks[futures[k]],
                                     feedback_ptr, build_lookup_tables(words), words,
                                     compute_word_weights(words)).first


\* ------------------------------------------------------------------------
\* C11: find_best_guess_encoded returns the sentinel 0 exactly when the
\* candidate index list is empty or no word of the vocabulary passes the
\* hard-mode filter; otherwise it returns a word of the filtered vocabulary.
\* ------------------------------------------------------------------------
\* the vocabulary left after hard-mode filtering, as a set
FilteredVocabulary ==
  {g \in Range(words) :
     (hard_mode /\ previous_guess # 0)
       => is_valid_hard_mode_guess(g, previous_guess, previous_feedback)}

C11_SentinelIffEmpty ==
  hard_pc = "selected" =>
    /\ best_guess = 0 <=> (possible_indices = <<>> \/ FilteredVocabulary = {})
    /\ best_guess # 0 => best_guess \in FilteredVocabulary

\* a hard-mode call with candidates whose filter leaves no word
C11_Witness ==
  /\ hard_pc = "selected"
  /\ possible_indices # <<>>
  /\ hard_mode
  /\ FilteredVocabulary = {}
  /\ best_guess = 0

\* ------------------------------------------------------------------------
\* C12: is_valid_hard_mode_guess(p, prev, fb) is true exactly when p has the
\* letter of prev at every position fb marks correct (2) and, for every
\* letter c, p holds c at least as often as prev has positions holding c that
\* fb marks present (1); a hard-mode call of find_best_guess_encoded with a
\* previous guess hands its workers, and returns, only such guesses.
\* ------------------------------------------------------------------------
PositionsOf(w, c) == {i \in 0..4 : get_char_code_at(w, i) = c}

\* the letters c that prev holds at a position marked present are the only
\* ones whose required count is above zero
HardModeRule(p, prev, fb) ==
  LET d == [i \in 0..4 |-> Digit(fb, i)]
      present == {get_char_code_at(prev, i) : i \in {j \in 0..4 : d[j] = 1}}
  IN /\ \A i \in 0..4 :
          d[i] = 2 => get_char_code_at(p, i) = get_char_code_at(prev, i)
     /\ \A c \in present \cap (1..26) :
          Cardinality(PositionsOf(p, c)) >=
            Cardinality({i \in PositionsOf(prev, c) : d[i] = 1})

C12_HardModeRule ==
  /\ hard_pc = "checked" =>
       (valid = "true" <=>
          HardModeRule(hard_potential_guess, previous_guess, previous_feedback))
  /\ (hard_pc = "selected" /\ hard_mode /\ previous_guess # 0) =>
       /\ \A c \in 1..Len(word_chunks) : \A k \in 1..Len(word_chunks[c]) :
            HardModeRule(word_chunks[c][k], previous_guess, previous_feedback)
       /\ best_guess # 0 =>
            HardModeRule(best_guess, previous_guess, previous_feedback)

\* a guess that keeps every correct letter and holds every present letter,
\* but one of them too few times, is rejected
C12_Witness ==
  /\ hard_pc = "checked"
  /\ valid = "false"
  /\ \A i \in 0..4 :
       Digit(previous_feedback, i) = 2 =>
         get_char_code_at(hard_potential_guess, i) = get_char_code_at(previous_guess, i)
  /\ \A i \in 0..4 :
       Digit(previous_feedback, i) = 1 =>
         PositionsOf(hard_potential_guess, get_char_code_at(previous_guess, i)) # {}


\* ------------------------------------------------------------------------
\* C14: whenever generate_lookup_table runs out of remaining depth for a
\* bucket of more than one candidate, it returns failure or writes the entry
\* with the depth-limited flag (bit 0 of the flags) set.
\* ------------------------------------------------------------------------
\* the flags field of the entry written at offset at of the tree buffer
FlagsAt(buffer, at) == buffer[at + 3] + 256 * buffer[at + 4]

C14_ExhaustedDepthFlagged ==
  gen_ret # "false" =>
    \A k \in 1..Len(gen_tree.entries) :
      LET e == gen_tree.entries[k]
      IN (e.remaining_depth <= 1 /\ Len(e.bucket) > 1) =>
           FlagsAt(gen_tree.buffer, e.at) % 2 = 1

\* ------------------------------------------------------------------------
\* C13: a run of run_non_interactive over the tree that generate_lookup_table
\* wrote for the vocabulary with depth D ends solved within min(D, 6) guesses
\* or stops at an entry that carries the depth-limited flag.
\* ------------------------------------------------------------------------
Min(a, b) == IF a < b THEN a ELSE b

C13_SolvedOrDepthLimited ==
  (run_pc = "done" /\ load_ret = "true") =>
    \A d \in 1..MaxDepth :
      (/\ kInitialGuess \in Range(words)
       /\ lookup_file = FileOf(generated_file(words, kInitialGuess, d, NoTable))) =>
        \/ run_result = "solved" /\ Len(steps) <= Min(d, 6)
        \/ /\ run_matched >= 0
           /\ FlagsAt(lookup_table.buffer_, run_matched) % 2 = 1

\* ------------------------------------------------------------------------
\* C15: a solve never ends as failed because the tree is absent, has no entry
\* for the observed feedback or is exhausted; it goes on with guesses of
\* find_best_guess_encoded.
\* ------------------------------------------------------------------------
C15_FallbackInsteadOfFailure ==
  run_result \notin {"lookup-not-found", "lookup-required",
                     "failed-missing-node", "failed-branch"}

\* ------------------------------------------------------------------------
\* C16: after a load that returned true every read of find_child in a
\* traversal from root() stays inside the loaded buffer.
\* ------------------------------------------------------------------------
C16_ReadsInsideBuffer == load_ret = "true" => ~oob_read

\* ------------------------------------------------------------------------
\* C17: root() is non-null only if the most recent load returned true, and a
\* load that returned false leaves no root, depth or buffer observable.
\* ------------------------------------------------------------------------
C17_FailedLoadExposesNothing ==
  /\ ~lookup_table.root_ptr_.null => load_ret = "true"
  /\ load_ret = "false" =>
       /\ lookup_table.depth_ = 0
       /\ lookup_table.buffer_ = <<>>

\* ------------------------------------------------------------------------
\* C18: a failed generation leaves the output path as it was, and
\* generate_lookup_table returns true only when the complete file is written.
\* ------------------------------------------------------------------------
C18_FailureLeavesPathIntact ==
  gen_pc = "exit" =>
    /\ gen_ret = "false" => lookup_file = gen_prev
    /\ gen_ret = "true" =>
         lookup_file = FileOf(generated_file(words, gen_start, gen_depth, feedback_ptr))

\* ------------------------------------------------------------------------
\* C19: a FeedbackTable never holds both a mapped view and a non-empty owned
\* buffer, and a moved-from table reports loaded() = false with guess_count =
\* answer_count = 0.
\* ------------------------------------------------------------------------
C19_ExclusiveOwnership ==
  /\ \A i \in tbl_alive :
       ~(~tbl_objects[i].mapped_data.null /\ tbl_objects[i].owned_data # <<>>)
  /\ \A j \in tbl_moved :
       /\ ~loaded(tbl_objects[j])
       /\ tbl_objects[j].guess_count = 0
       /\ tbl_objects[j].answer_count = 0

\* after moves a mapped table, a table that owns its buffer and a moved-from
\* table are alive together
C19_Witness ==
  \E i \in tbl_alive, j \in tbl_moved, k \in tbl_alive :
    /\ ~tbl_objects[i].mapped_data.null
    /\ tbl_objects[k].owned_data # <<>>
    /\ j \in tbl_alive

\* ------------------------------------------------------------------------
\* C20: weights only break ties: the next guess written for a bucket of more
\* than one candidate is never worse in its primary score (largest bucket,
\* then sum of squared bucket sizes, over the bucket's candidates) than a
\* word it was compared with.
\* ------------------------------------------------------------------------
PrimaryScore(g, bucket, ws) ==
  LET fbs == [k \in 1..Len(bucket) |-> calculate_feedback_encoded(g, ws[bucket[k] + 1])]
      Count(f) == Cardinality({k \in DOMAIN fbs : fbs[k] = f})
      worst == CHOOSE n \in {Count(f) : f \in Range(fbs)} :
                 \A f \in Range(fbs) : Count(f) <= n
      spread == Cardinality({<<i, j>> \in (DOMAIN fbs) \X (DOMAIN fbs) : fbs[i] = fbs[j]})
  IN <<worst, spread>>

WorseScore(x, y) == x[1] > y[1] \/ (x[1] = y[1] /\ x[2] > y[2])

\* the words write_node compares when it writes an entry: the bucket at the
\* last level, the whole vocabulary above it
ComparedWith(e) ==
  IF e.remaining_depth = 1 THEN {words[e.bucket[k] + 1] : k \in 1..Len(e.bucket)}
  ELSE Range(words)

C20_WeightOnlyBreaksTies ==
  \A k \in 1..Len(gen_tree.entries) :
    LET e == gen_tree.entries[k]
    IN (Len(e.bucket) > 1 /\ e.next_guess # 0) =>
         \A y \in ComparedWith(e) :
           ~WorseScore(PrimaryScore(e.next_guess, e.bucket, words),
                       PrimaryScore(y, e.bucket, words))

\* ------------------------------------------------------------------------
\* C21: in the generated file every child offset is 0 or 32 plus the node
\* offset of the node built for the entry's bucket and next guess, every entry
\* with a child is patched, and find_child on the file returns the next guess
\* and the child that the builder wrote for the outcome.
\* ------------------------------------------------------------------------
\* the file generate_lookup_table writes from the tree it has in memory
TreeFile == header_bytes(gen_depth, gen_tree.offset, gen_start) \o gen_tree.buffer

\* the entries written for the node that write_node built for a bucket
NodeBuiltFor(e) ==
  {n \in Range(gen_tree.entries) :
     /\ n.guess = e.next_guess
     /\ n.indices = Range(e.bucket)
     /\ n.remaining_depth = e.remaining_depth - 1}

HasChild(e) == e.remaining_depth > 1 /\ Len(e.bucket) > 1 /\ e.next_guess # 0

C21_ChildOffsetsPatched ==
  \A k \in 1..Len(gen_tree.entries) :
    LET e == gen_tree.entries[k]
        child == ReadU32(gen_tree.buffer, e.at + 12)
        found == find_child(TreeFile, [null |-> FALSE, off |-> HEADER_SIZE + e.node],
                            e.feedback, 0)
    IN /\ child = 0 \/ \E n \in NodeBuiltFor(e) : child = HEADER_SIZE + n.node
       /\ HasChild(e) => child # 0
       /\ found.guess_out = Word64(e.next_guess)
       /\ found.child = IF child = 0 THEN NullNode ELSE [null |-> FALSE, off |-> child]
       /\ ~found.oob

\* a tree with an entry that has a child node
C21_Witness ==
  \E k \in 1..Len(gen_tree.entries) :
    /\ HasChild(gen_tree.entries[k])
    /\ ReadU32(gen_tree.buffer, gen_tree.entries[k].at + 12) > HEADER_SIZE

\* ------------------------------------------------------------------------
\* C22: every non-zero child offset of the generated file is greater than the
\* file offset of the last byte of the entry list that holds it: the tree has
\* no backward and no shared node references.
\* ------------------------------------------------------------------------
ChildOffsets ==
  [k \in 1..Len(gen_tree.entries) |->
     ReadU32(gen_tree.buffer, gen_tree.entries[k].at + 12)]

C22_ForwardOnlyOffsets ==
  /\ \A k \in 1..Len(gen_tree.entries) :
       LET e == gen_tree.entries[k]
       IN ChildOffsets[k] # 0 =>
            ChildOffsets[k] > HEADER_SIZE + e.node + 4 + ENTRY_SIZE * e.count - 1
  /\ \A j \in 1..Len(gen_tree.entries), k \in 1..Len(gen_tree.entries) :
       (j # k /\ ChildOffsets[j] # 0) => ChildOffsets[j] # ChildOffsets[k]

\* a tree in which an entry refers to a node written after its entry list
C22_Witness ==
  \E j \in 1..Len(gen_tree.entries), k \in 1..Len(gen_tree.entries) :
    /\ ChildOffsets[j] = HEADER_SIZE + gen_tree.entries[k].node
    /\ gen_tree.entries[k].node >= gen_tree.entries[j].node + 4 + ENTRY_SIZE * gen_tree.entries[j].count

\* ------------------------------------------------------------------------
\* C26: a run of run_non_interactive makes at most 6 guesses and ends: the
\* first guess is the initial guess, every outcome is the feedback of the
\* guess against the answer, 242 appears only in the last step and no guess
\* follows it; while the loop runs the turn counts the steps and is at most 6.
\* ------------------------------------------------------------------------
C26_AtMostSixGuesses ==
  /\ Len(steps) <= 6
  /\ steps # <<>> => steps[1].guess = Word64(kInitialGuess)
  /\ \A k \in 1..Len(steps) :
       /\ steps[k].feedback = calculate_feedback_encoded(steps[k].guess.lo, run_answer)
       /\ steps[k].feedback = AllCorrect => k = Len(steps) /\ run_pc = "done"
  /\ run_pc = "loop" => run_turn <= 6 /\ Len(steps) = run_turn - 1
  /\ (run_pc = "done" /\ steps # <<>>) =>
       run_result \in {"solved", "failed-depth", "failed-missing-node",
                       "failed-branch", "fault"}
  /\ run_result = "solved" => steps[Len(steps)].feedback = AllCorrect

\* a run that used all six turns without finding the answer
C26_Witness ==
  /\ run_pc = "done" /\ run_result = "failed-depth"
  /\ Len(steps) = 6

\* ------------------------------------------------------------------------
\* C28: with candidates and an allowed vocabulary the guess returned by
\* find_best_guess_encoded has the least sum of squared bucket sizes of all
\* allowed guesses, and the score accumulated as the sum of 2*countSoFar + 1
\* is that sum of squares for every guess scored to the end.
\* ------------------------------------------------------------------------
\* the score the worker's loop accumulates for a guess when it is not pruned
FullScore(guess) ==
  ScoreLoop(GuessFeedbacks(possible_indices, guess,
                           feedback_ptr # NoTable /\ loaded(feedback_ptr[1]),
                           feedback_ptr, build_lookup_tables(words), words),
            1, [f \in 0..AllCorrect |-> 0], 0, DBL_MAX, FALSE).score

C28_LeastSumOfSquares ==
  (hard_pc = "selected" /\ possible_indices # <<>>) =>
    /\ \A g \in Range(words) :
         FullScore(g) = SumOfSquares(g, possible_indices, words)
    /\ FilteredVocabulary # {} =>
         \A h \in FilteredVocabulary :
           SumOfSquares(best_guess, possible_indices, words)
             <= SumOfSquares(h, possible_indices, words)

\* the returned guess scores strictly less than another allowed guess over
\* at least two candidates
C28_Witness ==
  /\ hard_pc = "selected" /\ Len(possible_indices) >= 2
  /\ \E h \in FilteredVocabulary :
       SumOfSquares(best_guess, possible_indices, words)
         < SumOfSquares(h, possible_indices, words)

\* ------------------------------------------------------------------------
\* C29: is_valid_hard_mode_guess accepts the true answer after any guess and
\* the outcome that guess had against it, so the hard-mode vocabulary of a
\* solve whose answer is in the vocabulary is never empty.
\* ------------------------------------------------------------------------
C29_AnswerPassesHardMode ==
  /\ (/\ hard_pc = "checked"
      /\ previous_feedback =
           calculate_feedback_encoded(previous_guess, hard_potential_guess))
       => valid = "true"
  /\ (/\ hard_pc = "selected" /\ hard_mode
      /\ \E a \in Range(words) :
           previous_feedback = calculate_feedback_encoded(previous_guess, a))
       => /\ FilteredVocabulary # {}
          /\ possible_indices # <<>> => best_guess # 0

\* the answer was checked against a guess that marked a letter of it present
\* and another correct
C29_Witness ==
  /\ hard_pc = "checked" /\ valid = "true"
  /\ hard_potential_guess # previous_guess
  /\ previous_feedback = calculate_feedback_encoded(previous_guess, hard_potential_guess)
  /\ \E i \in 0..4, j \in 0..4 :
       Digit(previous_feedback, i) = 1 /\ Digit(previous_feedback, j) = 2

\* ------------------------------------------------------------------------
\* C30: for a fixed worker count the guess returned by
\* find_best_guess_encoded does not depend on the order in which the worker
\* tasks run: every guess is in exactly one chunk, a task's result depends on
\* its own chunk only, and the reduction takes the results in chunk order.
\* ------------------------------------------------------------------------
\* the number of places of the chunks that hold the guess g
PlacesOf(g) ==
  Cardinality({ci \in (1..Len(word_chunks)) \X (1..Len(words)) :
                 ci[2] <= Len(word_chunks[ci[1]]) /\ word_chunks[ci[1]][ci[2]] = g})

\* the result of the task of future k, computed from its chunk alone
OwnResult(k) ==
  find_best_guess_worker(possible_indices, word_chunks[futures[k]], feedback_ptr,
                         build_lookup_tables(words), words, compute_word_weights(words))

ConsistentWith(stps) ==
  SelectSeq([k \in 1..Len(words) |-> k - 1],
            LAMBDA i : \A k \in 1..Len(stps) :
                         calculate_feedback_encoded(stps[k].guess, words[i + 1])
                           = stps[k].feedback)

\* the candidate list at the start of turn t: recorded in step t, or held in
\* possible_indices when turn t has not been played yet
CandidatesAt(t) ==
  IF t <= Len(locals.steps) THEN locals.steps[t].candidates ELSE locals.possible_indices

\* the turns that have started: those played, and the one the loop is at
StartedTurns ==
  1..(Len(locals.steps) + (IF locals.exit = "running" THEN 1 ELSE 0))

\* C25: at the start of every turn of run_non_interactive the candidate list
\* holds exactly the indices of the vocabulary that agree with every earlier
\* step of the solve, the index of the answer among them, whether the earlier
\* guesses came from the tree or from live search.
C25_CandidatesAreTheConsistentSet ==
  solve_pc \in {"loop", "done"} =>
    \A t \in StartedTurns :
      /\ CandidatesAt(t) = ConsistentWith(SubSeq(locals.steps, 1, t - 1))
      /\ \E k \in 1..Len(CandidatesAt(t)) : words[CandidatesAt(t)[k] + 1] = encoded_answer

\* C23: once a turn after the first takes its guess from live search, no later
\* turn of the same solve takes its guess from the tree.
C23_NoReturnToTheTree ==
  \A t \in 2..Len(locals.steps) :
    ~locals.steps[t].used_lookup =>
      \A u \in (t + 1)..Len(locals.steps) : ~locals.steps[u].used_lookup

\* a solve that took a guess from the tree, then one from live search, and
\* played a further turn after it
C23_Witness ==
  /\ solve_pc = "done"
  /\ \E t \in 2..Len(locals.steps) :
       /\ locals.steps[t].used_lookup
       /\ t + 2 <= Len(locals.steps)
       /\ ~locals.steps[t + 1].used_lookup

\* the (guess, outcome) steps of a trace
StepsOf(stps) == [k \in 1..Len(stps) |-> <<stps[k].guess, stps[k].feedback>>]

\* the trace of the same solve with the tree absent
LiveTrace ==
  run_non_interactive(solve_locals(words, <<>>),
                      solve_args(encoded_answer, words, solve_hard_mode, feedback_ptr,
                                 hw_threads, <<>>)).steps

\* C24: for every answer of the vocabulary and a fixed number of workers, a
\* solve guided by the tree that solver.cpp's generate_lookup_table wrote for
\* the initial guess gives the same (guess, outcome) steps as the same solve
\* with the tree absent.
C24_TreeGuidedEqualsLiveSearch ==
  (solve_pc = "done" /\ lookup_origin = "generated" /\ locals.exit # "none") =>
    StepsOf(locals.steps) = StepsOf(LiveTrace)

\* a solved game of four turns whose second and third guesses came from the
\* generated tree and whose fourth came from live search
C24_Witness ==
  /\ solve_pc = "done" /\ lookup_origin = "generated" /\ locals.exit = "solved"
  /\ Len(locals.steps) = 4
  /\ locals.steps[2].used_lookup /\ locals.steps[3].used_lookup
  /\ ~locals.steps[4].used_lookup

\* C27: in a hard-mode solve every guess of a turn after the first keeps, for
\* every earlier turn and not only the one before it, each letter marked
\* correct in its position and holds each letter marked present at least as
\* many times as it was marked present.
C27_HardModeKeepsEveryEarlierTurn ==
  solve_hard_mode =>
    \A t \in 2..Len(locals.steps) : \A u \in 1..(t - 1) :
      HardModeRule(locals.steps[t].guess, locals.steps[u].guess,
                   locals.steps[u].feedback)

====
